---------------------------- MODULE Spec2Model ----------------------------
(***************************************************************************)
(* A model of the dprint JS formatter host: the generation adapters        *)
(* (v3.ts, v4.ts), their byte channels, the configuration registry, the    *)
(* format call and the multi-plugin context (mod.ts).                      *)
(*                                                                         *)
(* Strings are sequences of Unicode code points; byte buffers are          *)
(* sequences of numbers in 0..255.  A facade is a record holding the       *)
(* adapter's closure state (configSet, the host bridge) and the state of   *)
(* the guest it drives; every operation of the facade is an operator from  *)
(* a facade record to the facade record after the call, and every guest    *)
(* call it makes is appended to the facade's call log.                     *)
(***************************************************************************)
EXTENDS Integers, Sequences, FiniteSets, TLC

VARIABLES facade, plugins, op, result, hist

vars == <<facade, plugins, op, result, hist>>

-----------------------------------------------------------------------------
(* Bounds of the model.                                                    *)

\* longest file text, in code points
MaxTextLen == 2
\* size of the scratch buffer of a staged-copy guest, in bytes: the
\* payloads are longer, so they cross in several chunks
MaxBufferSize == 2
\* largest value of the one configuration key
MaxConfigVal == 1
\* largest end of a requested byte range
MaxRangeEnd == 1
\* largest number of plugins added to a context
MaxPlugins == 2
\* longest file path of a request to a context, in code points
MaxPathLen == 3

-----------------------------------------------------------------------------
(* Code points and UTF-8 (TextEncoder / TextDecoder).                      *)

\* one code point as UTF-8
EncodeChar(c) ==
  IF c < 128 THEN <<c>>
  ELSE IF c < 2048 THEN <<192 + (c \div 64), 128 + (c % 64)>>
  ELSE <<224 + (c \div 4096), 128 + ((c \div 64) % 64), 128 + (c % 64)>>

RECURSIVE encode(_)
\* encoder.encode(text): the UTF-8 bytes of a string
encode(text) ==
  IF text = <<>> THEN <<>> ELSE EncodeChar(Head(text)) \o encode(Tail(text))

IsCont(b) == b >= 128 /\ b < 192

RECURSIVE decode(_)
\* decoder.decode(bytes): the string of UTF-8 bytes; an ill-formed byte
\* decodes to U+FFFD (65533)
decode(bytes) ==
  IF bytes = <<>> THEN <<>>
  ELSE LET b == bytes[1]
           n == Len(bytes)
       IN IF b < 128 THEN <<b>> \o decode(SubSeq(bytes, 2, n))
          ELSE IF b >= 194 /\ b < 224 /\ n >= 2 /\ IsCont(bytes[2])
            THEN <<(b - 192) * 64 + (bytes[2] - 128)>>
                   \o decode(SubSeq(bytes, 3, n))
          ELSE IF b >= 224 /\ b < 240 /\ n >= 3 /\ IsCont(bytes[2])
                  /\ IsCont(bytes[3])
                  /\ (b - 224) * 4096 + (bytes[2] - 128) * 64 >= 2048
            THEN <<(b - 224) * 4096 + (bytes[2] - 128) * 64
                      + (bytes[3] - 128)>>
                   \o decode(SubSeq(bytes, 4, n))
          ELSE <<65533>> \o decode(SubSeq(bytes, 2, n))

\* all sequences over S of length at most n
SeqsUpTo(S, n) == UNION {[1..k -> S] : k \in 0..n}

Min(a, b) == IF a < b THEN a ELSE b

-----------------------------------------------------------------------------
(* JSON.stringify / JSON.parse of the payloads that cross the boundary.    *)
(* A configuration object is a sequence of <<key, value>> entries in       *)
(* insertion order: the key a string, the value a digit.                   *)

Quote(s) == <<34>> \o s \o <<34>>

RECURSIVE Join(_, _)
\* Array.prototype.join: the items of a sequence of strings, separated
\* by `separator`
Join(items, separator) ==
  IF items = <<>> THEN <<>>
  ELSE IF Len(items) = 1 THEN items[1]
  ELSE items[1] \o separator \o Join(Tail(items), separator)

\* the items of a sequence of strings, separated by ","
JoinComma(items) == Join(items, <<44>>)

\* JSON.stringify of a configuration object: {"k":1}
StringifyConfig(obj) ==
  <<123>>
    \o JoinComma([i \in 1..Len(obj) |->
                    Quote(obj[i][1]) \o <<58, 48 + obj[i][2]>>])
    \o <<125>>

\* JSON.stringify({ global: g, plugin: p })
StringifyConfigPair(g, p) ==
  <<123>> \o Quote(<<103, 108, 111, 98, 97, 108>>) \o <<58>>
    \o StringifyConfig(g) \o <<44>>
    \o Quote(<<112, 108, 117, 103, 105, 110>>) \o <<58>>
    \o StringifyConfig(p) \o <<125>>

\* JSON.stringify of an array of strings: ["a","b"]
StringifyStrings(xs) ==
  <<91>> \o JoinComma([i \in 1..Len(xs) |-> Quote(xs[i])]) \o <<93>>

\* JSON.stringify of an array of digits: [1,2]
StringifyDigits(xs) ==
  <<91>> \o JoinComma([i \in 1..Len(xs) |-> <<48 + xs[i]>>]) \o <<93>>

\* the one configuration key, "k"
ConfigKey == <<107>>

\* the configuration objects callers pass: {} and {"k": v}
ConfigObjs == {<<>>} \cup {<< <<ConfigKey, v>> >> : v \in 1..MaxConfigVal}

\* what JSON.parse makes of a payload that is no JSON text of the universe
ParseError == << <<<<>>, 0 - 1>> >>

\* JSON.parse of a payload that holds a configuration object
ParseConfig(chars) ==
  IF \E o \in ConfigObjs : StringifyConfig(o) = chars
    THEN CHOOSE o \in ConfigObjs : StringifyConfig(o) = chars
    ELSE ParseError

\* JSON.parse of a payload that holds { global, plugin }
ParseConfigPair(chars) ==
  IF \E g, p \in ConfigObjs : StringifyConfigPair(g, p) = chars
    THEN CHOOSE gp \in ConfigObjs \X ConfigObjs :
           StringifyConfigPair(gp[1], gp[2]) = chars
    ELSE <<ParseError, ParseError>>

-----------------------------------------------------------------------------
(* Values of the model.                                                    *)

\* the file texts, formatted texts and error texts: the prefixes of
\* "\u00E9a\u00E9a..", where "a" (97) is one byte in UTF-8 and e-acute
\* (233) is two
Texts ==
  {[i \in 1..k |-> IF i % 2 = 1 THEN 233 ELSE 97] : k \in 0..MaxTextLen}

\* a request without bytesRange; a range is <<start, end>>
NoRange == <<>>

\* a request without overrideConfig
NoOverride == << <<>> >>

\* a buffer or configuration slot of the guest that holds nothing
Unset == <<0 - 1>>

\* no host formatter (undefined)
NoFormatter == [kind |-> "undefined"]

\* what an operation gave its caller
Returned(v) == [kind |-> "returned", value |-> v]
Threw(message) == [kind |-> "threw", value |-> message]

\* `Unexpected response code: ${responseCode}`, for a one-digit code
UnexpectedResponseCode(code) ==
  <<85, 110, 101, 120, 112, 101, 99, 116, 101, 100, 32, 114, 101, 115, 112,
    111, 110, 115, 101, 32, 99, 111, 100, 101, 58, 32, 48 + code>>

\* "Cannot set the override configuration for this old plugin."
CannotSetOverride ==
  <<67, 97, 110, 110, 111, 116, 32, 115, 101, 116, 32, 116, 104, 101, 32,
    111, 118, 101, 114, 114, 105, 100, 101, 32, 99, 111, 110, 102, 105,
    103, 117, 114, 97, 116, 105, 111, 110, 32, 102, 111, 114, 32, 116,
    104, 105, 115, 32, 111, 108, 100, 32, 112, 108, 117, 103, 105, 110, 46>>

\* a RuntimeError of the WebAssembly engine: the guest trapped
GuestTrap == <<82, 117, 110, 116, 105, 109, 101, 69, 114, 114, 111, 114>>

-----------------------------------------------------------------------------
(* The guest: a plugin instance, seen through its exports.                 *)

\* the state of a freshly instantiated plugin
NewGuest ==
  [shared |-> <<>>, scratch |-> <<>>,
   config |-> Unset, globalConfig |-> Unset, pluginConfig |-> Unset,
   overrideConfig |-> Unset, filePath |-> Unset,
   formattedText |-> <<>>, errorText |-> <<>>,
   used |-> [config |-> Unset, overrideConfig |-> Unset,
             filePath |-> Unset, fileBytes |-> Unset, range |-> NoRange]]

\* the closure of createHost of a fresh facade: the texts host_format
\* leaves, the buffer the imports share and, in generation 3, the file
\* path and override configuration the guest handed over
NewHost ==
  [formattedText |-> <<>>, errorText |-> <<>>,
   sharedBuffer |-> <<>>, sharedBufferIndex |-> 0,
   overrideConfig |-> <<>>, filePath |-> <<>>]

\* the guest holds a registered configuration
Registered(version, guest) ==
  IF version = 4 THEN guest.config # Unset
  ELSE guest.globalConfig # Unset /\ guest.pluginConfig # Unset

\* the exports of the byte channel
ChannelExports ==
  {"clear_shared_bytes", "get_shared_bytes_ptr", "get_wasm_memory_buffer",
   "get_wasm_memory_buffer_size", "add_to_shared_bytes_from_buffer",
   "set_buffer_with_shared_bytes"}

\* the host calls a guest export: the call is logged with its arguments
\* and with whether the guest holds a registered configuration.  The
\* calls of the byte channel are logged when the facade is traced.
GuestCall(f, name, args) ==
  IF name \in ChannelExports /\ ~f.trace THEN f
  ELSE [f EXCEPT !.calls = Append(@, [name |-> name, args |-> args,
                                      reg |-> Registered(f.version, f.guest),
                                      busy |-> f.busy, depth |-> f.depth])]

\* getWasmBufferAtPointer(wasmInstance, pointer, length) and the copy
\* through the view it returns: the copies of the facade after it.  A
\* pointer is known by the position in the log of the guest call that
\* returned it; the copies of a traced facade are logged with the
\* pointer and with the length of the log at the time of the copy.
getWasmBufferAtPointer(f, pointer) ==
  IF f.trace
    THEN Append(f.copies, [pointer |-> pointer, at |-> Len(f.calls)])
  ELSE f.copies

\* an export that reads the handle's configuration traps when the handle
\* is not registered
NeedsConfig(f, name, args) ==
  LET f1 == GuestCall(f, name, args)
  IN IF Registered(f.version, f.guest) THEN f1
     ELSE [f1 EXCEPT !.trapped = TRUE]

\* a plugin info without the fileNames property
Absent == << <<0 - 1>> >>

\* JSON.stringify of a plugin info: {"n":1} or {"n":1,"fileNames":[..]}
StringifyInfo(info) ==
  <<123>> \o Quote(<<110>>) \o <<58, 48 + info.n>>
    \o (IF info.fileNames = Absent THEN <<>>
        ELSE <<44>> \o Quote(<<102, 105, 108, 101, 78, 97, 109, 101, 115>>)
               \o <<58>> \o StringifyStrings(info.fileNames))
    \o <<125>>

\* the plugin infos guests report
InfoObjs == {[n |-> 1, fileNames |-> Absent], [n |-> 1, fileNames |-> <<>>]}

\* JSON.parse of a payload that holds a plugin info
ParseInfo(chars) ==
  IF \E o \in InfoObjs : StringifyInfo(o) = chars
    THEN CHOOSE o \in InfoObjs : StringifyInfo(o) = chars
    ELSE [n |-> 0 - 1, fileNames |-> Absent]

\* JSON.stringify of a file matching info
StringifyMatching(m) ==
  <<123>>
    \o Quote(<<102, 105, 108, 101, 69, 120, 116, 101, 110, 115, 105, 111,
               110, 115>>)
    \o <<58>> \o StringifyStrings(m.fileExtensions) \o <<44>>
    \o Quote(<<102, 105, 108, 101, 78, 97, 109, 101, 115>>)
    \o <<58>> \o StringifyStrings(m.fileNames) \o <<125>>

\* the extension lists plugins declare: [], ["a"], ["b"], ["A","a","b"]
\* and the capital sigma
ExtLists ==
  {<<>>, << <<97>> >>, << <<98>> >>, << <<65>>, <<97>>, <<98>> >>,
   << <<931>> >>}

\* the file name lists plugins declare: [], ["a.a","A"]
NameLists == {<<>>, << <<97, 46, 97>>, <<65>> >>}

\* the file matching infos guests report
MatchingInfos ==
  {[fileExtensions |-> e, fileNames |-> n] : e \in ExtLists, n \in NameLists}

\* JSON.parse of a payload that holds a file matching info
ParseMatching(chars) ==
  IF \E m \in MatchingInfos : StringifyMatching(m) = chars
    THEN CHOOSE m \in MatchingInfos : StringifyMatching(m) = chars
    ELSE [fileExtensions |-> Absent, fileNames |-> Absent]

\* the lists of diagnostics a guest reports: [], [1], [1,2], ...
MaxDiags == 1
DiagLists == {[i \in 1..k |-> i] : k \in 0..MaxDiags}

\* JSON.parse of a payload that holds an array of diagnostics: "[", the
\* diagnostics, each one digit, separated by ",", and "]"
ParseDiags(chars) ==
  LET inner == SubSeq(chars, 2, Len(chars) - 1)
  IN IF /\ Len(chars) >= 2
        /\ chars[1] = 91
        /\ chars[Len(chars)] = 93
        /\ Len(inner) = 0 \/ Len(inner) % 2 = 1
        /\ \A i \in 1..Len(inner) :
             IF i % 2 = 1 THEN inner[i] >= 48 /\ inner[i] <= 57
             ELSE inner[i] = 44
       THEN [i \in 1..((Len(inner) + 1) \div 2) |-> inner[2 * i - 1] - 48]
     ELSE <<0 - 1>>

\* the resolved configuration of a guest: the plugin's keys over the
\* global ones
Merge(g, p) == IF p # <<>> THEN p ELSE g

\* the license text every guest stages
LicenseText == <<77, 73, 84>>

-----------------------------------------------------------------------------
(* The host callback bridge (createHost of v4.ts and v3.ts): the imports   *)
(* the guest calls while its format export runs.                           *)

\* the facade and the context are defined below; a host formatter calls
\* back into them
RECURSIVE formatText(_, _, _, _)
RECURSIVE findPluginForFile(_, _)

\* String(error) of an Error with the message: "Error: <message>"
StringOfError(message) == <<69, 114, 114, 111, 114, 58, 32>> \o message

\* the guest formats without calling the host
NoCallback == [kind |-> "none"]

\* the callback the guest makes in a run of its format export, and what
\* the format export of the plugin the callback is delegated to answers
CallbackOf(run) ==
  IF "callback" \in DOMAIN run THEN run.callback ELSE NoCallback

NestedRunOf(run) ==
  IF "nested" \in DOMAIN run THEN run.nested ELSE [code |-> 0, text |-> <<>>]

\* a nested format that runs on the bridge of the facade that called
\* back: one host formatter and one pair of texts for all the facades
nestedOutcome_sharedBridge(f, plugin, out) ==
  [f |-> [f EXCEPT !.nested =
            Append(@, [plugin |-> plugin, formatter |-> out.f]),
                   !.hostFormatter = out.f.hostFormatter],
   r |-> out.r]

\* what the host formatter returns to the bridge of facade f once it
\* formatted with `plugin`: `out` is that plugin's facade and result
nestedOutcome(f, plugin, out) ==
  [f |-> [f EXCEPT !.nested =
            Append(@, [plugin |-> plugin, formatter |-> out.f])],
   r |-> out.r]

\* the body of the host formatter once the plugin for the path is found
formatWithPlugin(f, plugin, currentPlugin, request, run) ==
  IF plugin # 0 /\ plugin # currentPlugin
    THEN nestedOutcome(f, plugin,
                       formatText([plugins[plugin].formatter
                                     EXCEPT !.depth = f.depth + 1],
                                  request, NoFormatter, run))
  ELSE [f |-> f, r |-> Returned(request.fileText)]

\* the function createHostFormatter(currentPlugin) returns, applied to
\* `request` from the host bridge of facade f: the plugins it searches
\* are the plugins of the context at the time of the call.  The facade
\* of the plugin it formats with is left in f.nested.
createHostFormatter(f, currentPlugin, request, run) ==
  formatWithPlugin(f, findPluginForFile(plugins, request.filePath),
                   currentPlugin, request, run)

\* a host formatter that formats with the facade that called it
CallHostFormatter_self(f, request, run) ==
  LET out == formatText(f, request, NoFormatter, run)
  IN [f |-> [out.f EXCEPT !.hostFormatter = f.hostFormatter], r |-> out.r]

\* a call of the host formatter that takes one to be installed:
\* undefined is not a function
CallHostFormatter_required(f, request, run) ==
  [f |-> f, r |-> Threw(<<84, 121, 112, 101, 69, 114, 114, 111, 114>>)]

\* hostFormatter?.(request) ?? fileText.  A host formatter is undefined,
\* a function of the caller of formatText, which returns the text with a
\* suffix appended or throws an Error, or the function createHostFormatter
\* returned.
CallHostFormatter(f, request, run) ==
  CASE f.hostFormatter.kind = "undefined" ->
         [f |-> f, r |-> Returned(request.fileText)]
    [] f.hostFormatter.kind = "appends" ->
         [f |-> f, r |-> Returned(request.fileText \o f.hostFormatter.suffix)]
    [] f.hostFormatter.kind = "throws" ->
         [f |-> f, r |-> Threw(f.hostFormatter.message)]
    [] f.hostFormatter.kind = "bridge" ->
         createHostFormatter(f, f.hostFormatter.currentPlugin, request, run)

\* a response code that reports a change whatever the formatter returned
hostResponseCode_changed(fileText, formattedText) == 1

\* return fileText === formattedText ? 0 : 1
hostResponseCode(fileText, formattedText) ==
  IF fileText = formattedText THEN 0 ELSE 1

\* the end of host_format: `out` is what the call of the host formatter
\* left and returned or threw, `code` the response code
hostFormatReturn(out, request, code) ==
  IF out.r.kind = "returned"
    THEN [out.f EXCEPT !.hostRet = code,
                       !.callbacks = Append(@, [request |-> request,
                                                code |-> code,
                                                outcome |-> out.r]),
                       !.host.formattedText = out.r.value]
  ELSE [out.f EXCEPT !.hostRet = code,
                     !.callbacks = Append(@, [request |-> request,
                                              code |-> code,
                                              outcome |-> out.r]),
                     !.host.errorText = StringOfError(out.r.value)]

\* try { formattedText = ...; return code } catch { errorText = ...;
\* return 2 }
hostFormatResult(out, request) ==
  hostFormatReturn(out, request,
                   IF out.r.kind = "returned"
                     THEN hostResponseCode(request.fileText, out.r.value)
                   ELSE 2)

\* the try / catch of host_format around the host formatter: the code
\* returned is left in f.hostRet, and the callback is logged with the
\* request the host formatter was to get
hostFormatOutcome(f, request, run) ==
  hostFormatResult(CallHostFormatter(f, request, run), request)

\* a host_format that hands every range it is passed to the host formatter
host_format_v4_rangeKept(f, filePathBytes, rangeStart, rangeEnd, overrideConfigBytes, fileBytes, run) ==
  LET overrideConfigRaw == decode(overrideConfigBytes)
  IN hostFormatOutcome(f, [filePath |-> decode(filePathBytes),
                           fileText |-> decode(fileBytes),
                           bytesRange |-> <<rangeStart, rangeEnd>>,
                           overrideConfig |->
                             IF overrideConfigRaw = <<>> THEN <<>>
                             ELSE ParseConfig(overrideConfigRaw)], run)

\* host_format of generation 4: the arguments are the bytes at the
\* pointers the guest passed, and the range
host_format_v4(f, filePathBytes, rangeStart, rangeEnd, overrideConfigBytes, fileBytes, run) ==
  LET filePath == decode(filePathBytes)
      overrideConfigRaw == decode(overrideConfigBytes)
      overrideConfig == IF overrideConfigRaw = <<>> THEN <<>>
                        ELSE ParseConfig(overrideConfigRaw)
      fileText == decode(fileBytes)
      bytesRange == IF rangeStart = 0 /\ rangeEnd = Len(fileBytes)
                      THEN NoRange ELSE <<rangeStart, rangeEnd>>
  IN hostFormatOutcome(f, [filePath |-> filePath, fileText |-> fileText,
                           bytesRange |-> bytesRange,
                           overrideConfig |-> overrideConfig], run)

\* a host_get_formatted_text that stages the error text
host_get_formatted_text_error(f) ==
  [f EXCEPT !.host.sharedBuffer = encode(f.host.errorText),
            !.host.sharedBufferIndex = 0,
            !.hostRet = Len(encode(f.host.errorText))]

\* host_get_formatted_text and host_get_error_text, of both generations:
\* the text is encoded into the shared buffer, whose length is returned
host_get_formatted_text(f) ==
  [f EXCEPT !.host.sharedBuffer = encode(f.host.formattedText),
            !.host.sharedBufferIndex = 0,
            !.hostRet = Len(encode(f.host.formattedText))]

host_get_error_text(f) ==
  [f EXCEPT !.host.sharedBuffer = encode(f.host.errorText),
            !.host.sharedBufferIndex = 0,
            !.hostRet = Len(encode(f.host.errorText))]

\* host_write_buffer(pointer) of generation 4: the shared buffer is
\* copied into guest memory at the pointer; f.written is what the guest
\* finds there
host_write_buffer_v4(f) == [f EXCEPT !.written = f.host.sharedBuffer]

\* resetSharedBuffer(length) of generation 3
resetSharedBuffer(f, length) ==
  [f EXCEPT !.host.sharedBuffer = [i \in 1..length |-> 0],
            !.host.sharedBufferIndex = 0]

host_clear_bytes(f, length) == resetSharedBuffer(f, length)

\* host_read_buffer(pointer, length): the bytes of guest memory at the
\* pointer are set into the shared buffer at sharedBufferIndex
host_read_buffer(f, bytes) ==
  [f EXCEPT !.host.sharedBuffer =
              [i \in 1..Len(@) |->
                 IF i > f.host.sharedBufferIndex
                      /\ i <= f.host.sharedBufferIndex + Len(bytes)
                   THEN bytes[i - f.host.sharedBufferIndex] ELSE @[i]],
            !.host.sharedBufferIndex = @ + Len(bytes)]

\* host_write_buffer(pointer, index, length) of generation 3: the slice
\* of the shared buffer is copied into guest memory, where the guest
\* gathers the chunks in f.written
host_write_buffer_v3(f, index, length) ==
  [f EXCEPT !.written =
     @ \o SubSeq(f.host.sharedBuffer, index + 1,
                 Min(index + length, Len(f.host.sharedBuffer)))]

host_take_file_path(f) ==
  resetSharedBuffer([f EXCEPT !.host.filePath = decode(f.host.sharedBuffer)],
                    0)

host_take_override_config(f) ==
  resetSharedBuffer(
    [f EXCEPT !.host.overrideConfig = ParseConfig(decode(f.host.sharedBuffer))],
    0)

\* host_format of generation 3: the file text is the shared buffer, the
\* file path and the override configuration are the ones taken before
host_format_v3(f, run) ==
  hostFormatOutcome(f, [filePath |-> f.host.filePath,
                        fileText |-> decode(f.host.sharedBuffer),
                        bytesRange |-> NoRange,
                        overrideConfig |-> f.host.overrideConfig], run)

RECURSIVE GuestSendsChunks_v3(_, _, _)
\* the guest hands bytes to the host of generation 3 in chunks of its
\* scratch buffer size
GuestSendsChunks_v3(f, bytes, index) ==
  IF index < Len(bytes)
    THEN LET count == Min(Len(bytes) - index, f.bufferSize)
         IN GuestSendsChunks_v3(
              host_read_buffer(f, SubSeq(bytes, index + 1, index + count)),
              bytes, index + count)
    ELSE f

GuestSends_v3(f, bytes) ==
  GuestSendsChunks_v3(host_clear_bytes(f, Len(bytes)), bytes, 0)

RECURSIVE GuestFetchesChunks_v3(_, _, _)
\* the guest fetches `length` bytes of the shared buffer of the host of
\* generation 3 in chunks of its scratch buffer size
GuestFetchesChunks_v3(f, index, length) ==
  IF index < length
    THEN LET count == Min(length - index, f.bufferSize)
         IN GuestFetchesChunks_v3(host_write_buffer_v3(f, index, count),
                                  index + count, length)
    ELSE f

\* after host_format the guest fetches the formatted text on code 1 and
\* the error text on code 2: f.hostRet is the length the host returned
\* and f.written the bytes the guest got
GuestFetches(f) ==
  LET code == f.hostRet
      f1 == CASE code = 1 -> host_get_formatted_text(f)
              [] code = 2 -> host_get_error_text(f)
              [] OTHER -> f
  IN IF code \notin {1, 2} THEN f1
     ELSE IF f.version = 4 THEN host_write_buffer_v4(f1)
     ELSE GuestFetchesChunks_v3(f1, 0, f1.hostRet)

\* the guest calls back while its format export runs: it hands over the
\* callback's override configuration, file path and file text, calls
\* host_format and fetches the answer
GuestCallsHost(f, callback, run) ==
  LET overrideConfigBytes ==
        IF callback.overrideConfig = NoOverride THEN <<>>
        ELSE encode(StringifyConfig(callback.overrideConfig))
      fileBytes == encode(callback.fileText)
      range == IF callback.range = NoRange THEN <<0, Len(fileBytes)>>
               ELSE callback.range
      f0 == [f EXCEPT !.busy = TRUE]
      f1 == IF f.version = 4
              THEN host_format_v4(f0, encode(callback.filePath), range[1],
                                  range[2], overrideConfigBytes, fileBytes,
                                  run)
            ELSE LET g1 == IF callback.overrideConfig = NoOverride THEN f0
                           ELSE host_take_override_config(
                                  GuestSends_v3(f0, overrideConfigBytes))
                     g2 == host_take_file_path(
                             GuestSends_v3(g1, encode(callback.filePath)))
                 IN host_format_v3(GuestSends_v3(g2, fileBytes), run)
  IN [GuestFetches(f1) EXCEPT !.busy = FALSE]

-----------------------------------------------------------------------------
(* Guest exports of generation 4 (direct-pointer protocol).                *)

\* clear_shared_bytes(length): a zeroed region of `length` bytes, whose
\* pointer is returned
clear_shared_bytes_v4(f, length) ==
  [GuestCall(f, "clear_shared_bytes", <<length>>)
     EXCEPT !.guest.shared = [i \in 1..length |-> 0]]

get_shared_bytes_ptr(f) == GuestCall(f, "get_shared_bytes_ptr", <<>>)

release_config(f, id) ==
  [GuestCall(f, "release_config", <<id>>) EXCEPT !.guest.config = Unset]

register_config(f, id) ==
  [GuestCall(f, "register_config", <<id>>)
     EXCEPT !.guest.config = f.guest.shared, !.guest.shared = <<>>]

set_override_config(f) ==
  [GuestCall(f, "set_override_config", <<>>)
     EXCEPT !.guest.overrideConfig = f.guest.shared, !.guest.shared = <<>>]

set_file_path(f) ==
  [GuestCall(f, "set_file_path", <<>>)
     EXCEPT !.guest.filePath = f.guest.shared, !.guest.shared = <<>>]

\* what a format export does once it runs: it formats the shared bytes
\* with the registered configuration, and with the pending override and
\* file path, which it consumes, and answers as `run` says: run.code, and
\* the text run.text staged for code 1 or the error run.text for code 2.
GuestReads(f, range, run) ==
  [f EXCEPT !.guest.used = [config |-> IF f.version = 4 THEN f.guest.config
                                       ELSE f.guest.globalConfig
                                              \o f.guest.pluginConfig,
                            overrideConfig |-> f.guest.overrideConfig,
                            filePath |-> f.guest.filePath,
                            fileBytes |-> f.guest.shared,
                            range |-> range],
            !.guest.overrideConfig = Unset,
            !.guest.filePath = Unset,
            !.guest.shared = <<>>,
            !.guest.formattedText = IF run.code = 1 THEN run.text ELSE @,
            !.guest.errorText = IF run.code = 2 THEN run.text ELSE @,
            !.ret = run.code]

\* a run with a callback calls the host before the export answers
GuestFormats(f, range, run) ==
  GuestReads(IF CallbackOf(run).kind = "none" THEN f
             ELSE GuestCallsHost(f, CallbackOf(run), NestedRunOf(run)),
             range, run)

format_v4(f, id, run) ==
  LET f1 == NeedsConfig(f, "format", <<id>>)
  IN IF f1.trapped THEN f1 ELSE GuestFormats(f1, NoRange, run)

format_range_v4(f, id, start, end, run) ==
  LET f1 == NeedsConfig(f, "format_range", <<id, start, end>>)
  IN IF f1.trapped THEN f1 ELSE GuestFormats(f1, <<start, end>>, run)

\* an export that stages a text in the shared bytes and returns its length
GuestStages(f, name, args, text) ==
  [GuestCall(f, name, args)
     EXCEPT !.guest.shared = encode(text), !.ret = Len(encode(text))]

\* the guest hands over the text it holds; it holds none afterwards
get_formatted_text(f) ==
  [GuestStages(f, "get_formatted_text", <<>>, f.guest.formattedText)
     EXCEPT !.guest.formattedText = <<>>]

get_error_text(f) ==
  [GuestStages(f, "get_error_text", <<>>, f.guest.errorText)
     EXCEPT !.guest.errorText = <<>>]

get_plugin_info(f) ==
  GuestStages(f, "get_plugin_info", <<>>, StringifyInfo(f.info))

get_license_text(f) ==
  GuestStages(f, "get_license_text", <<>>, LicenseText)

get_config_file_matching(f, id) ==
  LET f1 == NeedsConfig(f, "get_config_file_matching", <<id>>)
  IN IF f1.trapped THEN f1
     ELSE [f1 EXCEPT !.guest.shared = encode(StringifyMatching(f.matching)),
                     !.ret = Len(encode(StringifyMatching(f.matching)))]

get_resolved_config_v4(f, id) ==
  LET f1 == NeedsConfig(f, "get_resolved_config", <<id>>)
      gp == ParseConfigPair(decode(f.guest.config))
      text == StringifyConfig(Merge(gp[1], gp[2]))
  IN IF f1.trapped THEN f1
     ELSE [f1 EXCEPT !.guest.shared = encode(text),
                     !.ret = Len(encode(text))]

get_config_diagnostics_v4(f, id, diags) ==
  LET f1 == NeedsConfig(f, "get_config_diagnostics", <<id>>)
  IN IF f1.trapped THEN f1
     ELSE [f1 EXCEPT !.guest.shared = encode(StringifyDigits(diags)),
                     !.ret = Len(encode(StringifyDigits(diags)))]

-----------------------------------------------------------------------------
(* The generation-4 adapter (v4.ts, createFromInstance).                   *)

\* only a single config is supported
configId == 1

\* the facade of a fresh instance: the adapter's closure, the host bridge
\* and the guest.  `exports` holds the optional exports the module has.
NewFacade(version, schema, exports, bufferSize, info, matching) ==
  [version |-> version, pluginSchemaVersion |-> schema,
   exports |-> exports, bufferSize |-> bufferSize,
   info |-> info, matching |-> matching,
   configSet |-> FALSE, hostFormatter |-> NoFormatter, host |-> NewHost,
   guest |-> NewGuest, trace |-> FALSE, copies |-> <<>>,
   calls |-> <<>>, ret |-> 0, received |-> <<>>, trapped |-> FALSE,
   callbacks |-> <<>>, hostRet |-> 0, written |-> <<>>, nested |-> <<>>,
   busy |-> FALSE, depth |-> 0]

\* sendString(value): clear the shared bytes to the encoded length and
\* write the bytes at the pointer returned
sendString_v4(f, value) ==
  LET bytes == encode(value)
      f1 == clear_shared_bytes_v4(f, Len(bytes))
      ptr == Len(f1.calls)
  IN [f1 EXCEPT !.copies = getWasmBufferAtPointer(f1, ptr),
                !.guest.shared =
                  [i \in 1..Len(f1.guest.shared) |->
                     IF i <= Len(bytes) THEN bytes[i]
                     ELSE f1.guest.shared[i]]]

\* receiveString(length): decode `length` bytes at the shared bytes
\* pointer; the string is left in f.received
receiveString_v4(f, length) ==
  LET f1 == get_shared_bytes_ptr(f)
      ptr == Len(f1.calls)
  IN [f1 EXCEPT !.copies = getWasmBufferAtPointer(f1, ptr),
                !.received =
                  decode(SubSeq(f1.guest.shared, 1,
                                Min(length, Len(f1.guest.shared))))]

\* a setConfig that leaves configSet as it was
setConfig_v4_unmarked(f, globalConfig, pluginConfig) ==
  LET f1 == release_config(f, configId)
      f2 == sendString_v4(f1, StringifyConfigPair(globalConfig, pluginConfig))
  IN register_config(f2, configId)

\* a setConfig that sends the global configuration and an empty plugin one
setConfig_v4_globalOnly(f, globalConfig, pluginConfig) ==
  LET f1 == release_config(f, configId)
      f2 == sendString_v4(f1, StringifyConfigPair(globalConfig, <<>>))
      f3 == register_config(f2, configId)
  IN [f3 EXCEPT !.configSet = TRUE]

setConfig_v4(f, globalConfig, pluginConfig) ==
  LET f1 == release_config(f, configId)
      f2 == sendString_v4(f1, StringifyConfigPair(globalConfig, pluginConfig))
      f3 == register_config(f2, configId)
  IN [f3 EXCEPT !.configSet = TRUE]

\* a setConfigIfNotSet that registers the empty configuration every time
setConfigIfNotSet_v4_always(f) == setConfig_v4(f, <<>>, <<>>)

setConfigIfNotSet_v4(f) ==
  IF ~f.configSet THEN setConfig_v4(f, <<>>, <<>>) ELSE f

\* receiveString(length) of the length an info export returned, unless
\* the guest trapped
receiveStaged_v4(f) == IF f.trapped THEN f ELSE receiveString_v4(f, f.ret)

\* the end of an info method: the guest's trap, or `value` returned
Answer(f, value) ==
  IF f.trapped THEN [f |-> f, r |-> Threw(GuestTrap)]
  ELSE [f |-> f, r |-> Returned(value)]

getConfigDiagnostics_v4(f, diags) ==
  LET f1 == receiveStaged_v4(
              get_config_diagnostics_v4(setConfigIfNotSet_v4(f), configId,
                                        diags))
  IN Answer(f1, ParseDiags(f1.received))

getResolvedConfig_v4(f) ==
  LET f1 == receiveStaged_v4(
              get_resolved_config_v4(setConfigIfNotSet_v4(f), configId))
  IN Answer(f1, ParseConfig(f1.received))

getFileMatchingInfo_v4(f) ==
  LET f1 == receiveStaged_v4(get_config_file_matching(f, configId))
  IN Answer(f1, ParseMatching(f1.received))

getPluginInfo_v4(f) ==
  LET f1 == receiveStaged_v4(get_plugin_info(f))
  IN Answer(f1, ParseInfo(f1.received))

getLicenseText_v4(f) ==
  LET f1 == receiveStaged_v4(get_license_text(f))
  IN Answer(f1, f1.received)

\* a range check that takes every plugin to export format_range
unsupportedRange_v4_never(f, request) == FALSE

\* request.bytesRange != null && format_range == null
unsupportedRange_v4(f, request) ==
  request.bytesRange # NoRange /\ "format_range" \notin f.exports

\* an override step that sends nothing
sendOverrideConfig_v4_skipped(f, request) == f

\* if (request.overrideConfig != null): send it and set_override_config()
sendOverrideConfig_v4(f, request) ==
  IF request.overrideConfig # NoOverride
    THEN set_override_config(
           sendString_v4(f, StringifyConfig(request.overrideConfig)))
    ELSE f

\* a switch whose case 1 returns like case 0
switchResponseCode_v4_unchanged(f, request) ==
  LET responseCode == f.ret
  IN CASE responseCode \in {0, 1} ->
            [f |-> f, r |-> Returned(request.fileText)]
       [] responseCode = 2 ->
            LET f6 == get_error_text(f)
                f7 == receiveString_v4(f6, f6.ret)
            IN [f |-> f7, r |-> Threw(f7.received)]
       [] OTHER -> [f |-> f, r |-> Threw(UnexpectedResponseCode(responseCode))]

\* switch (responseCode), on the code the format export left in f.ret
switchResponseCode_v4(f, request) ==
  LET responseCode == f.ret
  IN CASE responseCode = 0 -> [f |-> f, r |-> Returned(request.fileText)]
       [] responseCode = 1 ->
            LET f6 == get_formatted_text(f)
                f7 == receiveString_v4(f6, f6.ret)
            IN [f |-> f7, r |-> Returned(f7.received)]
       [] responseCode = 2 ->
            LET f6 == get_error_text(f)
                f7 == receiveString_v4(f6, f6.ret)
            IN [f |-> f7, r |-> Threw(f7.received)]
       [] OTHER -> [f |-> f, r |-> Threw(UnexpectedResponseCode(responseCode))]

\* what formatText does once the format export ended: the guest's trap,
\* or the switch on the response code
respond_v4(f, request) ==
  IF f.trapped THEN [f |-> f, r |-> Threw(GuestTrap)]
  ELSE switchResponseCode_v4(f, request)

\* formatText(request, formatWithHost); `run` is what the guest's format
\* export answers
formatText_v4(f, request, formatWithHost, run) ==
  IF unsupportedRange_v4(f, request)
    THEN [f |-> f, r |-> Returned(request.fileText)]
  ELSE
    LET f0 == [f EXCEPT !.hostFormatter = formatWithHost]
        f1 == setConfigIfNotSet_v4(f0)
        f2 == sendOverrideConfig_v4(f1, request)
        f3 == set_file_path(sendString_v4(f2, request.filePath))
        f4 == sendString_v4(f3, request.fileText)
        f5 == IF request.bytesRange # NoRange
                THEN format_range_v4(f4, configId, request.bytesRange[1],
                                     request.bytesRange[2], run)
                ELSE format_v4(f4, configId, run)
    IN respond_v4(f5, request)

-----------------------------------------------------------------------------
(* Guest exports of generation 3 (staged-copy protocol).                   *)

get_wasm_memory_buffer_size(f) ==
  [GuestCall(f, "get_wasm_memory_buffer_size", <<>>)
     EXCEPT !.ret = f.bufferSize]

get_wasm_memory_buffer(f) == GuestCall(f, "get_wasm_memory_buffer", <<>>)

clear_shared_bytes_v3(f, length) ==
  [GuestCall(f, "clear_shared_bytes", <<length>>) EXCEPT !.guest.shared = <<>>]

\* the guest appends the first `length` bytes of its scratch buffer to the
\* shared bytes
add_to_shared_bytes_from_buffer(f, length) ==
  [GuestCall(f, "add_to_shared_bytes_from_buffer", <<length>>)
     EXCEPT !.guest.shared = @ \o SubSeq(f.guest.scratch, 1, length)]

\* the guest fills its scratch buffer with `length` shared bytes at `index`
set_buffer_with_shared_bytes(f, index, length) ==
  [GuestCall(f, "set_buffer_with_shared_bytes", <<index, length>>)
     EXCEPT !.guest.scratch =
        [i \in 1..Len(f.guest.scratch) |->
           IF i <= length /\ index + i <= Len(f.guest.shared)
             THEN f.guest.shared[index + i] ELSE f.guest.scratch[i]]]

reset_config(f) ==
  [GuestCall(f, "reset_config", <<>>)
     EXCEPT !.guest.globalConfig = Unset, !.guest.pluginConfig = Unset]

set_global_config(f) ==
  [GuestCall(f, "set_global_config", <<>>)
     EXCEPT !.guest.globalConfig = f.guest.shared, !.guest.shared = <<>>]

set_plugin_config(f) ==
  [GuestCall(f, "set_plugin_config", <<>>)
     EXCEPT !.guest.pluginConfig = f.guest.shared, !.guest.shared = <<>>]

format_v3(f, run) ==
  LET f1 == NeedsConfig(f, "format", <<>>)
  IN IF f1.trapped THEN f1 ELSE GuestFormats(f1, NoRange, run)

get_resolved_config_v3(f) ==
  LET f1 == NeedsConfig(f, "get_resolved_config", <<>>)
      text == StringifyConfig(
                Merge(ParseConfig(decode(f.guest.globalConfig)),
                      ParseConfig(decode(f.guest.pluginConfig))))
  IN IF f1.trapped THEN f1
     ELSE [f1 EXCEPT !.guest.shared = encode(text),
                     !.ret = Len(encode(text))]

get_config_diagnostics_v3(f, diags) ==
  LET f1 == NeedsConfig(f, "get_config_diagnostics", <<>>)
  IN IF f1.trapped THEN f1
     ELSE [f1 EXCEPT !.guest.shared = encode(StringifyDigits(diags)),
                     !.ret = Len(encode(StringifyDigits(diags)))]

-----------------------------------------------------------------------------
(* The generation-3 adapter (v3.ts).                                       *)

\* the host writes bytes into guest memory at the scratch buffer pointer
WriteScratch(f, bytes, pointer) ==
  [f EXCEPT !.copies = getWasmBufferAtPointer(f, pointer),
            !.guest.scratch =
              [i \in 1..Len(@) |-> IF i <= Len(bytes) THEN bytes[i] ELSE @[i]]]

RECURSIVE sendLoop_v3(_, _, _, _, _)
\* the while loop of sendString: one chunk of at most memoryBufferSize
\* bytes per iteration
sendLoop_v3(f, encodedText, index, memoryBufferSize, memoryBufferPointer) ==
  IF index < Len(encodedText)
    THEN LET writeCount == Min(Len(encodedText) - index, memoryBufferSize)
             f1 == WriteScratch(
                     f, SubSeq(encodedText, index + 1, index + writeCount),
                     memoryBufferPointer)
             f2 == add_to_shared_bytes_from_buffer(f1, writeCount)
         IN sendLoop_v3(f2, encodedText, index + writeCount, memoryBufferSize,
                        memoryBufferPointer)
    ELSE f

\* a sendString that writes the encoded text one byte per chunk
sendString_v3_byteChunks(f, text) ==
  LET encodedText == encode(text)
      f1 == get_wasm_memory_buffer_size(f)
      f2 == get_wasm_memory_buffer(f1)
      f3 == clear_shared_bytes_v3(f2, Len(encodedText))
  IN sendLoop_v3(f3, encodedText, 0, 1, Len(f2.calls))

sendString_v3(f, text) ==
  LET encodedText == encode(text)
      f1 == get_wasm_memory_buffer_size(f)
      f2 == get_wasm_memory_buffer(f1)
      f3 == clear_shared_bytes_v3(f2, Len(encodedText))
  IN sendLoop_v3(f3, encodedText, 0, f1.ret, Len(f2.calls))

RECURSIVE receiveLoop_v3(_, _, _, _, _, _)
\* the while loop of receiveString; the bytes gathered so far are `buffer`
receiveLoop_v3(f, buffer, index, length, memoryBufferSize, memoryBufferPointer) ==
  IF index < length
    THEN LET readCount == Min(length - index, memoryBufferSize)
             f0 == set_buffer_with_shared_bytes(f, index, readCount)
             f1 == [f0 EXCEPT !.copies =
                      getWasmBufferAtPointer(f0, memoryBufferPointer)]
         IN receiveLoop_v3(f1, buffer \o SubSeq(f1.guest.scratch, 1, readCount),
                           index + readCount, length, memoryBufferSize,
                           memoryBufferPointer)
    ELSE [f EXCEPT !.received = decode(buffer)]

receiveString_v3(f, length) ==
  LET f1 == get_wasm_memory_buffer_size(f)
      f2 == get_wasm_memory_buffer(f1)
  IN receiveLoop_v3(f2, <<>>, 0, length, f1.ret, Len(f2.calls))

setConfig_v3(f, globalConfig, pluginConfig) ==
  LET f1 == IF "reset_config" \in f.exports THEN reset_config(f) ELSE f
      f2 == set_global_config(sendString_v3(f1, StringifyConfig(globalConfig)))
      f3 == set_plugin_config(sendString_v3(f2, StringifyConfig(pluginConfig)))
  IN [f3 EXCEPT !.configSet = TRUE]

setConfigIfNotSet_v3(f) ==
  IF ~f.configSet THEN setConfig_v3(f, <<>>, <<>>) ELSE f

receiveStaged_v3(f) == IF f.trapped THEN f ELSE receiveString_v3(f, f.ret)

getConfigDiagnostics_v3(f, diags) ==
  LET f1 == receiveStaged_v3(
              get_config_diagnostics_v3(setConfigIfNotSet_v3(f), diags))
  IN Answer(f1, ParseDiags(f1.received))

getResolvedConfig_v3(f) ==
  LET f1 == receiveStaged_v3(get_resolved_config_v3(setConfigIfNotSet_v3(f)))
  IN Answer(f1, ParseConfig(f1.received))

\* pluginInfo.fileNames = pluginInfo.fileNames ?? []
DefaultFileNames(info) ==
  IF info.fileNames = Absent THEN [info EXCEPT !.fileNames = <<>>] ELSE info

getPluginInfo_v3(f) ==
  LET f1 == receiveStaged_v3(get_plugin_info(f))
  IN Answer(f1, DefaultFileNames(ParseInfo(f1.received)))

getLicenseText_v3(f) ==
  LET f1 == receiveStaged_v3(get_license_text(f))
  IN Answer(f1, f1.received)

\* an override check that takes every schema version to support overrides
supportsOverrideConfig_v3_any(f) == TRUE

\* pluginSchemaVersion === 2 is the version without set_override_config
supportsOverrideConfig_v3(f) == f.pluginSchemaVersion # 2

\* switch (responseCode), on the code the format export left in f.ret
switchResponseCode_v3(f, request) ==
  LET responseCode == f.ret
  IN CASE responseCode = 0 -> [f |-> f, r |-> Returned(request.fileText)]
       [] responseCode = 1 ->
            LET f6 == get_formatted_text(f)
                f7 == receiveString_v3(f6, f6.ret)
            IN [f |-> f7, r |-> Returned(f7.received)]
       [] responseCode = 2 ->
            LET f6 == get_error_text(f)
                f7 == receiveString_v3(f6, f6.ret)
            IN [f |-> f7, r |-> Threw(f7.received)]
       [] OTHER -> [f |-> f, r |-> Threw(UnexpectedResponseCode(responseCode))]

respond_v3(f, request) ==
  IF f.trapped THEN [f |-> f, r |-> Threw(GuestTrap)]
  ELSE switchResponseCode_v3(f, request)

formatText_v3(f, request, formatWithHost, run) ==
  IF request.bytesRange # NoRange
    THEN [f |-> f, r |-> Returned(request.fileText)]
  ELSE
    LET f0 == [f EXCEPT !.hostFormatter = formatWithHost]
        f1 == setConfigIfNotSet_v3(f0)
    IN IF request.overrideConfig # NoOverride /\ ~supportsOverrideConfig_v3(f)
         THEN [f |-> f1, r |-> Threw(CannotSetOverride)]
       ELSE
         LET f2 == IF request.overrideConfig # NoOverride
                     THEN set_override_config(
                            sendString_v3(
                              f1, StringifyConfig(request.overrideConfig)))
                     ELSE f1
             f3 == set_file_path(sendString_v3(f2, request.filePath))
             f4 == sendString_v3(f3, request.fileText)
             f5 == format_v3(f4, run)
         IN respond_v3(f5, request)

-----------------------------------------------------------------------------
(* The Formatter facade: the adapter of the instance's generation.         *)

\* a method the returned object does not have: calling it is a TypeError
TypeError == <<84, 121, 112, 101, 69, 114, 114, 111, 114>>

setConfig(f, globalConfig, pluginConfig) ==
  IF f.version = 4 THEN setConfig_v4(f, globalConfig, pluginConfig)
  ELSE setConfig_v3(f, globalConfig, pluginConfig)

getConfigDiagnostics(f, diags) ==
  IF f.version = 4 THEN getConfigDiagnostics_v4(f, diags)
  ELSE getConfigDiagnostics_v3(f, diags)

getResolvedConfig(f) ==
  IF f.version = 4 THEN getResolvedConfig_v4(f) ELSE getResolvedConfig_v3(f)

\* the generation-3 facade has no getFileMatchingInfo method
getFileMatchingInfo(f) ==
  IF f.version = 4 THEN getFileMatchingInfo_v4(f)
  ELSE [f |-> f, r |-> Threw(TypeError)]

getPluginInfo(f) ==
  IF f.version = 4 THEN getPluginInfo_v4(f) ELSE getPluginInfo_v3(f)

getLicenseText(f) ==
  IF f.version = 4 THEN getLicenseText_v4(f) ELSE getLicenseText_v3(f)

formatText(f, request, formatWithHost, run) ==
  IF f.version = 4 THEN formatText_v4(f, request, formatWithHost, run)
  ELSE formatText_v3(f, request, formatWithHost, run)

-----------------------------------------------------------------------------
(* The standalone facade: its state, and one action per method.            *)

\* the path of the requests made to the standalone facade: "a.a"
FacadePaths == {<<97, 46, 97>>}

Ranges == {NoRange} \cup {<<0, e>> : e \in 1..MaxRangeEnd}

\* the overrideConfig of a request: none, or {"k":1}
Overrides == {NoOverride, << <<ConfigKey, 1>> >>}

Requests ==
  [filePath : FacadePaths, fileText : Texts, bytesRange : Ranges,
   overrideConfig : Overrides]

\* the answers of a format export: a response code, 3 standing for every
\* code that is none of 0, 1, 2, and the text it staged
Runs ==
  {[code |-> c, text |-> <<>>] : c \in {0, 3}}
  \cup {[code |-> c, text |-> t] : c \in {1, 2}, t \in Texts}

HostFormatters == {NoFormatter}

\* the file matching info of the guest of the standalone facade
FacadeMatching == [fileExtensions |-> << <<97>> >>, fileNames |-> <<>>]

\* the facades createFromInstance returns: a generation-4 instance with
\* or without format_range, a generation-3 instance whose schema version
\* is 2 or 3, with or without reset_config
Facades(matching) ==
  {NewFacade(4, 4, e, 0, [n |-> 1, fileNames |-> Absent], matching) :
     e \in {{}, {"format_range"}}}
  \cup
  {[NewFacade(3, sv, e, MaxBufferSize,
              [n |-> 1, fileNames |-> IF sv = 2 THEN Absent ELSE <<>>],
              matching)
      EXCEPT !.guest.scratch = [i \in 1..MaxBufferSize |-> 0]] :
     sv \in {2, 3}, e \in {{}, {"reset_config"}}}

\* a call begins: the log of guest calls is the log of this call, and
\* the locals of the adapter's functions hold nothing
Begin(f) ==
  [f EXCEPT !.calls = <<>>, !.copies = <<>>,
            !.trapped = FALSE, !.ret = 0, !.received = <<>>,
            !.callbacks = <<>>, !.hostRet = 0, !.written = <<>>,
            !.nested = <<>>, !.busy = FALSE, !.depth = 0,
            !.guest.used = NewGuest.used]

\* the call registered a configuration with the guest
Registers(calls) ==
  \E i \in 1..Len(calls) :
    calls[i].name \in {"register_config", "set_plugin_config"}

\* the call invoked a format export
ReachedFormat(calls) ==
  \E i \in 1..Len(calls) : calls[i].name \in {"format", "format_range"}

\* the history the properties read: whether the call before this one was
\* a formatText that the plugin failed (code 2), how many calls other than
\* setConfig registered a configuration, whether one did so after a
\* setConfig, and the arguments of the last setConfig: ({}, {}) as long
\* as there was none
NewHist ==
  [prevFailed |-> FALSE, implicitCount |-> 0, explicitSet |-> FALSE,
   implicitAfterSet |-> FALSE, lastSet |-> << <<>>, <<>> >>]

PluginFailed(o, r) ==
  o.name = "formatText" /\ r.kind = "threw" /\ o.code = 2

Record(o, f) ==
  LET implicit == o.name # "setConfig" /\ Registers(f.calls)
  IN [hist EXCEPT
        !.implicitCount = Min(2, @ + IF implicit THEN 1 ELSE 0),
        !.explicitSet = @ \/ o.name = "setConfig",
        !.implicitAfterSet = @ \/ (implicit /\ hist.explicitSet),
        !.lastSet = IF o.name = "setConfig"
                      THEN <<o.globalConfig, o.pluginConfig>> ELSE @]

\* no call is in progress or waiting to be read by the caller
NoOp == [name |-> "none", code |-> 0 - 1]

Idle == op = NoOp

Init ==
  /\ facade \in Facades(FacadeMatching)
  /\ plugins = <<>>
  /\ op = NoOp
  /\ result = Returned(<<>>)
  /\ hist = NewHist

\* a method of the facade was called as `o` and ended as `out`
Called(o, out) ==
  /\ Idle
  /\ facade' = out.f
  /\ result' = out.r
  /\ op' = o
  /\ hist' = Record(o, out.f)
  /\ UNCHANGED plugins

SetConfig ==
  \E g, p \in ConfigObjs :
    Called([name |-> "setConfig", code |-> 0 - 1,
            globalConfig |-> g, pluginConfig |-> p],
           [f |-> setConfig(Begin(facade), g, p), r |-> Returned(<<>>)])

GetConfigDiagnostics ==
  \E diags \in DiagLists :
    Called([name |-> "getConfigDiagnostics", code |-> 0 - 1, diags |-> diags],
           getConfigDiagnostics(Begin(facade), diags))

GetResolvedConfig ==
  Called([name |-> "getResolvedConfig", code |-> 0 - 1],
         getResolvedConfig(Begin(facade)))

GetFileMatchingInfo ==
  Called([name |-> "getFileMatchingInfo", code |-> 0 - 1],
         getFileMatchingInfo(Begin(facade)))

GetPluginInfo ==
  Called([name |-> "getPluginInfo", code |-> 0 - 1],
         getPluginInfo(Begin(facade)))

GetLicenseText ==
  Called([name |-> "getLicenseText", code |-> 0 - 1],
         getLicenseText(Begin(facade)))

\* formatText(request, formatWithHost); op.code is the response code of the
\* format export when the call reached it
FormatText ==
  \E request \in Requests, h \in HostFormatters, run \in Runs :
    LET out == formatText(Begin(facade), request, h, run)
    IN Called([name |-> "formatText",
               code |-> IF ReachedFormat(out.f.calls) /\ ~out.f.trapped
                          THEN run.code ELSE 0 - 1,
               request |-> request, formatWithHost |-> h, run |-> run],
              out)

\* the caller has the outcome of its call: what the call left for the
\* properties to read is dropped, the facade and its guest stay as they are
Return ==
  /\ ~Idle
  /\ facade' = Begin(facade)
  /\ op' = NoOp
  /\ result' = Returned(<<>>)
  /\ hist' = [hist EXCEPT !.prevFailed = PluginFailed(op, result)]
  /\ UNCHANGED plugins

Next ==
  \/ SetConfig
  \/ GetConfigDiagnostics
  \/ GetResolvedConfig
  \/ GetFileMatchingInfo
  \/ GetPluginInfo
  \/ GetLicenseText
  \/ FormatText
  \/ Return

Spec == Init /\ [][Next]_vars

-----------------------------------------------------------------------------
(* Properties of the standalone facade.  They are read in the state a     *)
(* call leaves: op is the call, result its outcome, facade.calls the      *)
(* guest calls it made, facade.guest.used what its format export read.    *)

\* the configuration payload the guest holds
GuestConfig(f) ==
  IF f.version = 4 THEN f.guest.config
  ELSE f.guest.globalConfig \o f.guest.pluginConfig

\* the payload that registers the pair gp = <<global, plugin>>
ExpectedConfig(version, gp) ==
  IF version = 4 THEN encode(StringifyConfigPair(gp[1], gp[2]))
  ELSE encode(StringifyConfig(gp[1])) \o encode(StringifyConfig(gp[2]))

\* the positions of the calls of the exports `names` in a call log
CallsOf(calls, names) == {i \in 1..Len(calls) : calls[i].name \in names}

\* the call is a formatText that reached a format export, which answered
FormatAnswered == op.name = "formatText" /\ op.code >= 0

\* C1: a formatText call that reaches format or format_range ends as the
\* response code says: code 0 returns the request's fileText, code 1
\* returns the text the guest staged, fetched by one get_formatted_text
\* call, code 2 throws the text fetched by one get_error_text call; no
\* call fetches a text the code does not ask for.
C1_ResponseCodeFixesOutcome ==
  (op.name = "formatText" /\ op.code \in {0, 1, 2}) =>
    LET formatted == Cardinality(CallsOf(facade.calls, {"get_formatted_text"}))
        error == Cardinality(CallsOf(facade.calls, {"get_error_text"}))
    IN CASE op.code = 0 ->
              /\ result = Returned(op.request.fileText)
              /\ formatted = 0 /\ error = 0
         [] op.code = 1 ->
              /\ result = Returned(op.run.text)
              /\ formatted = 1 /\ error = 0
         [] op.code = 2 ->
              /\ result = Threw(op.run.text)
              /\ formatted = 0 /\ error = 1

\* a generation-3 format answered 1 and the caller got the two-character
\* text the guest staged, which is not the text of the request
C1_Witness ==
  /\ op.name = "formatText" /\ op.code = 1
  /\ facade.version = 3
  /\ op.run.text = <<233, 97>>
  /\ op.request.fileText # op.run.text
  /\ result = Returned(<<233, 97>>)

\* C2: a formatText that the plugin failed (code 2) leaves the facade
\* configured and the guest's registered configuration as it was; the
\* next formatText or getResolvedConfig registers nothing, reaches the
\* guest with that configuration, and ends as the guest answers.
C2_FailureKeepsConfig ==
  /\ PluginFailed(op, result) =>
       /\ facade.configSet
       /\ GuestConfig(facade) = ExpectedConfig(facade.version, hist.lastSet)
  /\ (hist.prevFailed /\ op.name \in {"formatText", "getResolvedConfig"}) =>
       /\ ~Registers(facade.calls)
       /\ ~facade.trapped
       /\ GuestConfig(facade) = ExpectedConfig(facade.version, hist.lastSet)
       /\ op.name = "getResolvedConfig" =>
            result = Returned(Merge(hist.lastSet[1], hist.lastSet[2]))
       /\ (/\ op.name = "formatText"
           /\ op.request.bytesRange = NoRange
           /\ ~(/\ op.request.overrideConfig # NoOverride
                /\ facade.pluginSchemaVersion = 2)) =>
            /\ op.code >= 0
            /\ facade.guest.used.config
                 = ExpectedConfig(facade.version, hist.lastSet)
            /\ op.code = 0 => result = Returned(op.request.fileText)
            /\ op.code = 1 => result = Returned(op.run.text)

\* the call after a failed formatText is a formatText that succeeds
C2_Witness ==
  /\ hist.prevFailed
  /\ op.name = "formatText" /\ op.code = 1
  /\ result = Returned(op.run.text)
  /\ ~Registers(facade.calls)

\* the exports that register or release a configuration
RegistrationExports ==
  {"release_config", "register_config", "reset_config",
   "set_global_config", "set_plugin_config"}

\* C3, as claimed: on a facade whose setConfig was never called, every
\* guest call a format, info or diagnostics call makes for itself finds
\* a registered configuration.
C3_RegistersBeforeGuestCall ==
  (/\ ~hist.explicitSet
   /\ op.name \in {"formatText", "getPluginInfo", "getFileMatchingInfo",
                   "getResolvedConfig", "getLicenseText",
                   "getConfigDiagnostics"}) =>
    \A i \in 1..Len(facade.calls) :
      facade.calls[i].name \notin RegistrationExports => facade.calls[i].reg

\* C4: calls other than setConfig register a configuration at most once
\* in the life of a facade, and never after a setConfig.
C4_ImplicitAtMostOnce ==
  /\ hist.implicitCount <= 1
  /\ ~hist.implicitAfterSet
  /\ (op.name \notin {"none", "setConfig"} /\ Registers(facade.calls)) =>
       ~hist.explicitSet

\* a format reached the guest after one implicit registration and a later
\* setConfig of a non-empty global configuration
C4_Witness ==
  /\ hist.implicitCount = 1 /\ hist.explicitSet
  /\ hist.lastSet[1] # <<>>
  /\ FormatAnswered
  /\ facade.guest.used.config = ExpectedConfig(facade.version, hist.lastSet)

\* C5: once setConfig was called, the guest holds exactly the pair of the
\* last setConfig: a format export reads it, getResolvedConfig returns
\* what the guest resolves from it, getConfigDiagnostics asks for it.
C5_LastSetConfigUsed ==
  hist.explicitSet =>
    /\ GuestConfig(facade) = ExpectedConfig(facade.version, hist.lastSet)
    /\ FormatAnswered =>
         facade.guest.used.config
           = ExpectedConfig(facade.version, hist.lastSet)
    /\ op.name = "getResolvedConfig" =>
         result = Returned(Merge(hist.lastSet[1], hist.lastSet[2]))
    /\ op.name = "getConfigDiagnostics" =>
         /\ result = Returned(op.diags)
         /\ ~Registers(facade.calls)

\* getResolvedConfig returns the plugin configuration of the last
\* setConfig, whose global configuration was empty, after an implicit
\* registration that it replaced
C5_Witness ==
  /\ hist.explicitSet /\ hist.implicitCount = 1
  /\ hist.lastSet = << <<>>, << <<ConfigKey, 1>> >> >>
  /\ op.name = "getResolvedConfig"
  /\ result = Returned(<< <<ConfigKey, 1>> >>)

\* C6: set_override_config is called only by a formatText whose request
\* carries an overrideConfig, once and before the format export; the
\* format export reads the override of its own request and none when the
\* request carries none, in which case it reads the registered
\* configuration alone.
C6_OverrideScoped ==
  LET sets == CallsOf(facade.calls, {"set_override_config"})
      formats == CallsOf(facade.calls, {"format", "format_range"})
  IN /\ sets # {} =>
          /\ op.name = "formatText"
          /\ op.request.overrideConfig # NoOverride
          /\ Cardinality(sets) = 1
          /\ \A i \in sets, j \in formats : i < j
     /\ FormatAnswered =>
          /\ facade.guest.used.overrideConfig
               = IF op.request.overrideConfig = NoOverride THEN Unset
                 ELSE encode(StringifyConfig(op.request.overrideConfig))
          /\ facade.guest.used.config
               = ExpectedConfig(facade.version, hist.lastSet)
          /\ facade.guest.overrideConfig = Unset

\* a format export read the override of its request
C6_Witness ==
  /\ FormatAnswered
  /\ op.request.overrideConfig = << <<ConfigKey, 1>> >>
  /\ CallsOf(facade.calls, {"set_override_config"}) # {}
  /\ facade.guest.used.overrideConfig
       = encode(StringifyConfig(<< <<ConfigKey, 1>> >>))

\* the request of a formatText on a schema-version-2 plugin carries an
\* overrideConfig
Gen2Override ==
  /\ op.name = "formatText"
  /\ facade.pluginSchemaVersion = 2
  /\ op.request.overrideConfig # NoOverride

\* C7, as claimed: on a schema-version-2 plugin every formatText whose
\* request carries an overrideConfig throws, and calls neither
\* set_override_config nor format.
C7_Gen2OverrideAlwaysFails ==
  Gen2Override =>
    /\ result.kind = "threw"
    /\ CallsOf(facade.calls, {"set_override_config", "format"}) = {}

\* C7, amended: on a schema-version-2 plugin a formatText whose request
\* carries an overrideConfig throws "Cannot set the override configuration
\* for this old plugin." when the request has no bytesRange and returns
\* the request's fileText when it has one; in both cases it calls neither
\* set_override_config nor format.
C7_Gen2OverrideFailsUnlessRanged ==
  Gen2Override =>
    /\ op.request.bytesRange = NoRange => result = Threw(CannotSetOverride)
    /\ op.request.bytesRange # NoRange =>
         result = Returned(op.request.fileText)
    /\ CallsOf(facade.calls, {"set_override_config", "format"}) = {}

\* a request with an overrideConfig and no bytesRange was refused
C7_Witness ==
  /\ Gen2Override
  /\ op.request.bytesRange = NoRange
  /\ result = Threw(CannotSetOverride)

\* C8: a formatText with a bytesRange on a generation-3 adapter, or on a
\* generation-4 plugin without format_range, returns the request's
\* fileText and calls no format export.
C8_RangeShortCircuit ==
  (/\ op.name = "formatText"
   /\ op.request.bytesRange # NoRange
   /\ (facade.version = 3 \/ "format_range" \notin facade.exports)) =>
    /\ result = Returned(op.request.fileText)
    /\ ~ReachedFormat(facade.calls)

\* a ranged request on a generation-4 plugin without format_range came
\* back with its two-character text
C8_Witness ==
  /\ op.name = "formatText"
  /\ op.request.bytesRange = <<0, 1>>
  /\ facade.version = 4 /\ "format_range" \notin facade.exports
  /\ op.request.fileText = <<233, 97>>
  /\ result = Returned(<<233, 97>>)
  /\ facade.calls = <<>>

\* the exports of generation 4 that take the handle of a configuration
ConfigHandleExports ==
  {"format", "format_range", "get_resolved_config", "get_config_diagnostics",
   "get_config_file_matching"}

\* C19: in generation 4 every guest call that takes the configuration
\* handle is made while the handle is registered in the guest, that is
\* after a register_config that no release_config followed, and every
\* register_config comes right after a release_config of the handle.
C19_HandleRegisteredWhenUsed ==
  facade.version = 4 =>
    \A i \in 1..Len(facade.calls) :
      /\ facade.calls[i].name \in ConfigHandleExports => facade.calls[i].reg
      /\ facade.calls[i].name = "register_config" =>
           /\ i > 1
           /\ facade.calls[i - 1].name = "release_config"
           /\ facade.calls[i - 1].args = facade.calls[i].args

-----------------------------------------------------------------------------
(* The multi-plugin context (mod.ts, createContext).                       *)

\* the cased letters of the model: A-Z, a-z and the Greek sigmas
IsCased(c) ==
  \/ c >= 65 /\ c <= 90
  \/ c >= 97 /\ c <= 122
  \/ c \in {931, 962, 963}

\* the case-ignorable characters of the model: ' . : ^ `
IsCaseIgnorable(c) == c \in {39, 46, 58, 94, 96}

\* the Final_Sigma condition of String.prototype.toLowerCase: the capital
\* sigma at `i` follows a cased letter and case-ignorable characters, and
\* no cased letter follows it after case-ignorable characters
FinalSigma(str, i) ==
  /\ \E j \in 1..(i - 1) :
       /\ IsCased(str[j])
       /\ \A k \in (j + 1)..(i - 1) : IsCaseIgnorable(str[k])
  /\ ~\E j \in (i + 1)..Len(str) :
       /\ IsCased(str[j])
       /\ \A k \in (i + 1)..(j - 1) : IsCaseIgnorable(str[k])

\* String.prototype.toLowerCase, on the letters A-Z and the Greek sigmas:
\* a capital sigma becomes the final sigma where Final_Sigma holds
ToLowerCase(str) ==
  [i \in 1..Len(str) |->
     IF str[i] >= 65 /\ str[i] <= 90 THEN str[i] + 32
     ELSE IF str[i] = 931
       THEN (IF FinalSigma(str, i) THEN 962 ELSE 963)
     ELSE str[i]]

\* String.prototype.lastIndexOf: the 0-based index of the last `char`,
\* or -1
LastIndexOf(str, char) ==
  IF \E i \in 1..Len(str) : str[i] = char
    THEN (CHOOSE i \in 1..Len(str) :
            str[i] = char /\ \A j \in (i + 1)..Len(str) : str[j] # char) - 1
    ELSE 0 - 1

Max(a, b) == IF a > b THEN a ELSE b

\* str.slice(start), for 0 <= start
Slice(str, start) == SubSeq(str, start + 1, Len(str))

getFileName(filePath) ==
  LET lastSlash == Max(LastIndexOf(filePath, 47), LastIndexOf(filePath, 92))
  IN ToLowerCase(IF lastSlash >= 0 THEN Slice(filePath, lastSlash + 1)
                 ELSE filePath)

\* no extension (undefined)
NoExtension == <<0 - 1>>

\* a derivation that takes the part after a dot that begins the file name
getFileExtension_leadingDot(filePath) ==
  LET fileName == getFileName(filePath)
      lastDot == LastIndexOf(fileName, 46)
  IN IF lastDot >= 0 THEN Slice(fileName, lastDot + 1) ELSE NoExtension

getFileExtension(filePath) ==
  LET fileName == getFileName(filePath)
      lastDot == LastIndexOf(fileName, 46)
  IN IF lastDot > 0 THEN Slice(fileName, lastDot + 1) ELSE NoExtension

\* set.has(value), for a Set kept as the sequence of its values in
\* insertion order
Has(set, value) == \E i \in 1..Len(set) : set[i] = value

RECURSIVE NewSet(_)
\* new Set(values): the values in order of first occurrence
NewSet(values) ==
  IF values = <<>> THEN <<>>
  ELSE LET init == NewSet(SubSeq(values, 1, Len(values) - 1))
           last == values[Len(values)]
       IN IF Has(init, last) THEN init ELSE Append(init, last)

RECURSIVE FirstFrom(_, _)
\* for (const plugin of plugins) if (..) return plugin: the index of the
\* first plugin from index i on whose test passed, or 0; passes[i] is
\* the outcome of the test of plugin i
FirstFrom(passes, i) ==
  IF i > Len(passes) THEN 0
  ELSE IF passes[i] THEN i
  ELSE FirstFrom(passes, i + 1)

\* a lookup that tries the extensions before the file names
findPluginForFile_extensionFirst(ps, filePath) ==
  LET fileName == getFileName(filePath)
      ext == getFileExtension(filePath)
      nameMatches == [i \in 1..Len(ps) |-> Has(ps[i].fileNames, fileName)]
      extMatches == [i \in 1..Len(ps) |-> Has(ps[i].fileExtensions, ext)]
      byExt == IF ext # NoExtension /\ ext # <<>>
                 THEN FirstFrom(extMatches, 1) ELSE 0
  IN IF byExt # 0 THEN byExt ELSE FirstFrom(nameMatches, 1)

\* the index in `ps` of the plugin found for the file, or 0 (undefined)
findPluginForFile(ps, filePath) ==
  LET fileName == getFileName(filePath)
      ext == getFileExtension(filePath)
      nameMatches == [i \in 1..Len(ps) |-> Has(ps[i].fileNames, fileName)]
      extMatches == [i \in 1..Len(ps) |-> Has(ps[i].fileExtensions, ext)]
      byName == FirstFrom(nameMatches, 1)
  IN IF byName # 0 THEN byName
     ELSE IF ext # NoExtension /\ ext # <<>>
       THEN FirstFrom(extMatches, 1)
     ELSE 0

\* "No plugin found for file: "
NoPluginFoundFor ==
  <<78, 111, 32, 112, 108, 117, 103, 105, 110, 32, 102, 111, 117, 110, 100,
    32, 102, 111, 114, 32, 102, 105, 108, 101, 58, 32>>

\* ". Registered plugins handle: "
RegisteredPluginsHandle ==
  <<46, 32, 82, 101, 103, 105, 115, 116, 101, 114, 101, 100, 32, 112, 108,
    117, 103, 105, 110, 115, 32, 104, 97, 110, 100, 108, 101, 58, 32>>

\* an error message that names the file alone
NoPluginFound_fileOnly(ps, filePath) == NoPluginFoundFor \o filePath

\* the message of the error thrown when no plugin is found
NoPluginFound(ps, filePath) ==
  NoPluginFoundFor \o filePath \o RegisteredPluginsHandle
    \o Join([i \in 1..Len(ps) |-> Join(ps[i].fileExtensions, <<44, 32>>)],
            <<59, 32>>)

\* addPlugin(source, pluginConfig) on the plugins `ps` of a context whose
\* global configuration is globalConfig; `formatter` is the facade
\* createFromWasmModule(source) returns.  The facade has no
\* setHostFormatter method, so the call throws once the plugin is pushed.
addPlugin(ps, globalConfig, formatter, pluginConfig) ==
  LET f1 == setConfig(formatter, globalConfig, pluginConfig)
      got == getFileMatchingInfo(f1)
      matchingInfo == got.r.value
      registered ==
        [formatter |-> got.f,
         pluginConfig |-> pluginConfig,
         fileExtensions |->
           NewSet([i \in 1..Len(matchingInfo.fileExtensions) |->
                     ToLowerCase(matchingInfo.fileExtensions[i])]),
         fileNames |->
           NewSet([i \in 1..Len(matchingInfo.fileNames) |->
                     ToLowerCase(matchingInfo.fileNames[i])])]
  IN IF got.r.kind = "threw" THEN [plugins |-> ps, r |-> got.r]
     ELSE [plugins |-> Append(ps, registered), r |-> Threw(TypeError)]

\* the plugins once a call into facade f of plugin `plugin` has ended:
\* the facade, and the facades its host formatter formatted with
AfterCall(ps, plugin, f) ==
  [i \in 1..Len(ps) |->
     IF i = plugin THEN [ps[i] EXCEPT !.formatter = [f EXCEPT !.nested = <<>>]]
     ELSE IF \E n \in 1..Len(f.nested) : f.nested[n].plugin = i
       THEN [ps[i] EXCEPT !.formatter =
               f.nested[CHOOSE n \in 1..Len(f.nested) :
                          f.nested[n].plugin = i].formatter]
     ELSE ps[i]]

\* the plugins and the result formatText(request) of the context leaves
\* once the formatText of `plugin` ended as `out`
contextOutcome(ps, plugin, out) ==
  [plugins |-> AfterCall(ps, plugin, out.f), r |-> out.r]

\* formatText(request) of the context; `run` is what the format export of
\* the plugin found answers
contextFormatText(ps, request, run) ==
  LET plugin == findPluginForFile(ps, request.filePath)
  IN IF plugin = 0
       THEN [plugins |-> ps, r |-> Threw(NoPluginFound(ps, request.filePath))]
     ELSE contextOutcome(ps, plugin,
                         formatText(ps[plugin].formatter, request,
                                    NoFormatter, run))

RECURSIVE flatMapConfigDiagnostics_reversed(_, _, _)
\* a flatMap that puts the diagnostics of the later plugins first
flatMapConfigDiagnostics_reversed(ps, i, diags) ==
  IF i > Len(ps) THEN [plugins |-> ps, r |-> Returned(<<>>)]
  ELSE LET out == getConfigDiagnostics(ps[i].formatter, diags[i])
           rest == flatMapConfigDiagnostics_reversed(
                     [ps EXCEPT ![i].formatter = out.f], i + 1, diags)
       IN IF out.r.kind = "threw" THEN [plugins |-> ps, r |-> out.r]
          ELSE IF rest.r.kind = "threw" THEN rest
          ELSE [plugins |-> rest.plugins,
                r |-> Returned(rest.r.value \o out.r.value)]

RECURSIVE flatMapConfigDiagnostics(_, _, _)
\* plugins.flatMap((p) => p.formatter.getConfigDiagnostics()), from index
\* i on; the guest of plugin i reports diags[i]
flatMapConfigDiagnostics(ps, i, diags) ==
  IF i > Len(ps) THEN [plugins |-> ps, r |-> Returned(<<>>)]
  ELSE LET out == getConfigDiagnostics(ps[i].formatter, diags[i])
           rest == flatMapConfigDiagnostics(
                     [ps EXCEPT ![i].formatter = out.f], i + 1, diags)
       IN IF out.r.kind = "threw" THEN [plugins |-> ps, r |-> out.r]
          ELSE IF rest.r.kind = "threw" THEN rest
          ELSE [plugins |-> rest.plugins,
                r |-> Returned(out.r.value \o rest.r.value)]

contextGetConfigDiagnostics(ps, diags) == flatMapConfigDiagnostics(ps, 1, diags)

-----------------------------------------------------------------------------
(* The context: its state, and one action per method.                      *)

\* the characters of the paths: a A . /
PathChars == {97, 65, 46, 47}

RouterPaths == SeqsUpTo(PathChars, MaxPathLen)

\* the requests made to a context
RouterRequests ==
  [filePath : RouterPaths, fileText : {<<233>>}, bytesRange : {NoRange},
   overrideConfig : {NoOverride}]

\* the format export of a plugin of a context answers 1 with the text "a"
RouterRuns == {[code |-> 1, text |-> <<97>>]}

\* the global configuration of the context
RouterGlobalConfig == << <<ConfigKey, 1>> >>

\* the file matching infos of the plugins added to a context
RouterMatching ==
  {[fileExtensions |-> << <<97>> >>, fileNames |-> <<>>],
   [fileExtensions |-> << <<65>>, <<97>>, <<98>> >>, fileNames |-> <<>>],
   [fileExtensions |-> <<>>, fileNames |-> << <<97, 46, 97>>, <<65>> >>]}

\* the facades of the modules added to a context: generation-4 plugins
\* with format_range, and one generation-3 plugin
RouterFacades ==
  {NewFacade(4, 4, {"format_range"}, 0, [n |-> 1, fileNames |-> Absent], m) :
     m \in RouterMatching}
  \cup
  {[NewFacade(3, 3, {}, MaxBufferSize, [n |-> 1, fileNames |-> <<>>],
              FacadeMatching)
      EXCEPT !.guest.scratch = [i \in 1..MaxBufferSize |-> 0]]}

\* every facade of the context at the beginning of a call
BeginAll(ps) == [i \in 1..Len(ps) |-> [ps[i] EXCEPT !.formatter = Begin(@)]]

RouterInit ==
  /\ facade = NewFacade(4, 4, {}, 0, [n |-> 1, fileNames |-> Absent],
                        FacadeMatching)
  /\ plugins = <<>>
  /\ op = NoOp
  /\ result = Returned(<<>>)
  /\ hist = NewHist

\* a method of the context was called as `o` and ended as `out`; o.before
\* holds the plugins the call found
RouterCalled(o, out) ==
  /\ Idle
  /\ plugins' = out.plugins
  /\ result' = out.r
  /\ op' = o
  /\ UNCHANGED <<facade, hist>>

AddPlugin ==
  /\ Len(plugins) < MaxPlugins
  /\ \E formatter \in RouterFacades :
       RouterCalled([name |-> "addPlugin", code |-> 0 - 1, before |-> plugins],
                    addPlugin(plugins, RouterGlobalConfig, formatter, <<>>))

RouterFormatText ==
  \E request \in RouterRequests, run \in RouterRuns :
    RouterCalled([name |-> "context.formatText", code |-> 0 - 1,
                  before |-> plugins, request |-> request, run |-> run],
                 contextFormatText(plugins, request, run))

RouterGetConfigDiagnostics ==
  RouterCalled([name |-> "context.getConfigDiagnostics", code |-> 0 - 1,
                before |-> plugins],
               contextGetConfigDiagnostics(
                 plugins, [i \in 1..Len(plugins) |-> <<i>>]))

\* the context threw the error of a file no plugin is found for
NoPluginError(o, r) ==
  /\ o.name = "context.formatText"
  /\ r.kind = "threw"
  /\ SubSeq(r.value, 1, Min(Len(r.value), Len(NoPluginFoundFor)))
       = NoPluginFoundFor

\* the caller has the outcome of its call
RouterReturn ==
  /\ ~Idle
  /\ plugins' = BeginAll(plugins)
  /\ op' = NoOp
  /\ result' = Returned(<<>>)
  /\ hist' = [hist EXCEPT !.prevFailed = NoPluginError(op, result)]
  /\ UNCHANGED facade

RouterNext ==
  \/ AddPlugin
  \/ RouterFormatText
  \/ RouterGetConfigDiagnostics
  \/ RouterReturn

RouterSpec == RouterInit /\ [][RouterNext]_vars

-----------------------------------------------------------------------------
(* Properties of the context.  They are read in the state a call leaves:  *)
(* op.before holds the plugins the call found, plugins the plugins it     *)
(* left, and the call log of each plugin's facade the guest calls made.   *)

\* the plugins whose guest the call reached
PluginsCalled == {i \in 1..Len(plugins) : plugins[i].formatter.calls # <<>>}

\* the plugins of `ps` whose file-name set contains the file name of the
\* path
MatchesByName(ps, filePath) ==
  {i \in 1..Len(ps) : Has(ps[i].fileNames, getFileName(filePath))}

\* the plugins of `ps` whose extension set contains the extension derived
\* from the path
MatchesByExtension(ps, filePath) ==
  {i \in 1..Len(ps) :
     /\ getFileExtension(filePath) # NoExtension
     /\ Has(ps[i].fileExtensions, getFileExtension(filePath))}

\* the earliest registered plugin of a non-empty set of plugins
Earliest(S) == CHOOSE i \in S : \A j \in S : i <= j

\* C9: formatText of the context formats with the earliest registered
\* plugin whose file-name set contains the lower-cased file name of the
\* request; when no plugin matches by file name, with the earliest
\* registered plugin whose extension set contains the derived extension;
\* it reaches no other plugin.
C9_FileNameBeforeExtension ==
  op.name = "context.formatText" =>
    LET byName == MatchesByName(op.before, op.request.filePath)
        byExtension == MatchesByExtension(op.before, op.request.filePath)
    IN /\ byName # {} => PluginsCalled = {Earliest(byName)}
       /\ (byName = {} /\ byExtension # {}) =>
            PluginsCalled = {Earliest(byExtension)}
       /\ PluginsCalled # {} => result = Returned(op.run.text)

\* the second plugin, which matches "A.a" by file name, formatted it
\* although the first plugin matches it by extension
C9_Witness ==
  /\ op.name = "context.formatText"
  /\ op.request.filePath = <<65, 46, 97>>
  /\ Len(plugins) = 2
  /\ MatchesByExtension(op.before, op.request.filePath) = {1}
  /\ MatchesByName(op.before, op.request.filePath) = {2}
  /\ PluginsCalled = {2}
  /\ result = Returned(<<97>>)

\* C10: when no registered plugin matches the file of a request by name
\* or by extension, formatText of the context throws the error that names
\* the file and lists the extension set of every registered plugin in
\* registration order, reaches no plugin and leaves the plugins as they
\* were; the request after such an error is formatted by the plugin that
\* matches it.
C10_NoPluginFoundLeavesRouter ==
  /\ (/\ op.name = "context.formatText"
      /\ MatchesByName(op.before, op.request.filePath) = {}
      /\ MatchesByExtension(op.before, op.request.filePath) = {}) =>
       /\ result =
            Threw(NoPluginFoundFor \o op.request.filePath
                    \o RegisteredPluginsHandle
                    \o Join([i \in 1..Len(op.before) |->
                               Join(op.before[i].fileExtensions, <<44, 32>>)],
                            <<59, 32>>))
       /\ PluginsCalled = {}
       /\ plugins = op.before
  /\ (/\ hist.prevFailed
      /\ op.name = "context.formatText"
      /\ (MatchesByName(op.before, op.request.filePath)
            \cup MatchesByExtension(op.before, op.request.filePath)) # {}) =>
       /\ Cardinality(PluginsCalled) = 1
       /\ PluginsCalled \subseteq
            (MatchesByName(op.before, op.request.filePath)
               \cup MatchesByExtension(op.before, op.request.filePath))
       /\ result = Returned(op.run.text)

\* with two plugins registered, the request after a request that no
\* plugin matched is formatted
C10_Witness ==
  /\ hist.prevFailed
  /\ op.name = "context.formatText"
  /\ Len(plugins) = 2
  /\ plugins[1].fileExtensions = <<<<97>>, <<98>>>>
  /\ PluginsCalled # {}
  /\ result = Returned(<<97>>)

-----------------------------------------------------------------------------
(* The context whose plugins call back into the host while they format.   *)

\* the paths of the requests and of the callbacks: "a.a", "a.b", "a"
BridgePaths == {<<97, 46, 97>>, <<97, 46, 98>>, <<97>>}

BridgeRequests ==
  [filePath : BridgePaths, fileText : {<<233>>}, bytesRange : {NoRange},
   overrideConfig : {NoOverride}]

\* the callbacks a guest makes: a file path and a file text
BridgeCallbacks ==
  {[kind |-> "host_format", filePath |-> p, fileText |-> <<97>>,
    range |-> NoRange, overrideConfig |-> NoOverride] : p \in BridgePaths}

\* the format export answers 1 with the text "a", after it called back or
\* without a callback; the format export of the plugin a callback is
\* delegated to answers 1 with the text "b"
BridgeRuns ==
  {[code |-> 1, text |-> <<97>>, callback |-> c,
    nested |-> [code |-> 1, text |-> <<98>>]] :
     c \in {NoCallback} \cup BridgeCallbacks}

\* the plugins added to the context format the files "*.a" or "*.b"
BridgeFacades ==
  {NewFacade(4, 4, {"format_range"}, 0, [n |-> 1, fileNames |-> Absent],
             [fileExtensions |-> <<e>>, fileNames |-> <<>>]) :
     e \in {<<97>>, <<98>>}}

BridgeAddPlugin ==
  /\ Len(plugins) < MaxPlugins
  /\ \E formatter \in BridgeFacades :
       RouterCalled([name |-> "addPlugin", code |-> 0 - 1, before |-> plugins],
                    addPlugin(plugins, RouterGlobalConfig, formatter, <<>>))

BridgeFormatText ==
  \E request \in BridgeRequests, run \in BridgeRuns :
    RouterCalled([name |-> "context.formatText", code |-> 0 - 1,
                  before |-> plugins, request |-> request, run |-> run],
                 contextFormatText(plugins, request, run))

BridgeNext ==
  \/ BridgeAddPlugin
  \/ BridgeFormatText
  \/ RouterReturn

BridgeSpec == RouterInit /\ [][BridgeNext]_vars

-----------------------------------------------------------------------------
(* Properties of the callbacks of a context.  They are read in the state  *)
(* a call leaves: the callbacks of a plugin's facade are the host_format  *)
(* calls its guest made, with the outcome of the host formatter.          *)

\* the plugin of `ps` the file of the path belongs to: the earliest one
\* that matches it by file name, else the earliest one that matches it by
\* extension, else 0
RoutedTo(ps, filePath) ==
  IF MatchesByName(ps, filePath) # {}
    THEN Earliest(MatchesByName(ps, filePath))
  ELSE IF MatchesByExtension(ps, filePath) # {}
    THEN Earliest(MatchesByExtension(ps, filePath))
  ELSE 0

\* the call is a formatText of the context, formatted by a registered
\* plugin whose guest called back
BridgeCall ==
  /\ op.name = "context.formatText"
  /\ CallbackOf(op.run).kind # "none"
  /\ RoutedTo(op.before, op.request.filePath) # 0

\* the number of calls of a format export the facade's guest received
FormatsReceived(f) == Cardinality(CallsOf(f.calls, {"format", "format_range"}))

\* C11: when the guest of a registered plugin P calls back while the
\* context formats with P, and the context routes the callback's file path
\* to a registered plugin Q other than P, the callback is answered by
\* formatText of Q: the guest of Q formats the callback's text, and the
\* host formatter's outcome is the outcome of that formatText.
C11_CallbackDelegated ==
  BridgeCall =>
    LET P == RoutedTo(op.before, op.request.filePath)
        Q == RoutedTo(op.before, op.run.callback.filePath)
    IN (Q # 0 /\ Q # P) =>
         /\ FormatsReceived(plugins[Q].formatter) = 1
         /\ plugins[Q].formatter.guest.used.fileBytes
              = encode(op.run.callback.fileText)
         /\ Len(plugins[P].formatter.callbacks) = 1
         /\ plugins[P].formatter.callbacks[1].outcome
              = Returned(op.run.nested.text)

\* C12: a callback of plugin P never calls P's own formatText: the guest
\* of P receives the one format call of the request and no call while it
\* formats; when the context routes the callback's file path to P itself
\* or to no plugin, host_format returns 0 and the text the host keeps is
\* the callback's text.
C12_NeverCallsItself ==
  BridgeCall =>
    LET P == RoutedTo(op.before, op.request.filePath)
        Q == RoutedTo(op.before, op.run.callback.filePath)
        f == plugins[P].formatter
    IN /\ FormatsReceived(f) = 1
       /\ \A i \in 1..Len(f.calls) : ~f.calls[i].busy
       /\ Q \in {0, P} =>
            /\ Len(f.callbacks) = 1
            /\ f.callbacks[1].code = 0
            /\ f.callbacks[1].outcome = Returned(op.run.callback.fileText)
            /\ f.host.formattedText = op.run.callback.fileText

\* the second of two plugins called back with a path of its own, and the
\* callback returned 0
C12_Witness ==
  /\ BridgeCall
  /\ Len(plugins) = 2
  /\ RoutedTo(op.before, op.request.filePath) = 2
  /\ RoutedTo(op.before, op.run.callback.filePath) = 2
  /\ plugins[2].formatter.callbacks[1].code = 0
  /\ result = Returned(op.run.text)

-----------------------------------------------------------------------------
(* The standalone facade whose guest calls back into the host, and whose  *)
(* requests carry the full byte range.                                     *)

\* the range of all the bytes of a text
FullRange(text) == <<0, Len(encode(text))>>

\* requests without a range or with the full range of their text
HostRequests ==
  UNION {{[filePath |-> p, fileText |-> t, bytesRange |-> r,
           overrideConfig |-> NoOverride] :
            p \in FacadePaths, r \in {NoRange, FullRange(t)}} : t \in Texts}

\* the host formatters a caller passes to formatText: none, one that
\* returns the text as it is, one that appends "h", one that throws an
\* Error with the message "x"
FormatWithHost ==
  {NoFormatter,
   [kind |-> "appends", suffix |-> <<>>],
   [kind |-> "appends", suffix |-> <<104>>],
   [kind |-> "throws", message |-> <<120>>]}

\* the callbacks of a guest: for a text, with the full range and no
\* override configuration, or for the text "\u00E9" of two bytes with
\* an override configuration and the range of its first byte, of its
\* second byte or of both
HostCallbacks ==
  {[kind |-> "host_format", filePath |-> <<97, 46, 97>>, fileText |-> t,
    range |-> NoRange, overrideConfig |-> NoOverride] : t \in Texts}
  \cup {[kind |-> "host_format", filePath |-> <<97, 46, 97>>,
         fileText |-> <<233>>, range |-> r,
         overrideConfig |-> << <<ConfigKey, 1>> >>] :
          r \in {<<0, 1>>, <<1, 2>>, <<0, 2>>}}

\* the answers of a format export: the codes 0 to 3 without a callback,
\* the error text of code 2 being "a" or the text of the error of an
\* unexpected response code, and the code 0 after a callback
HostRuns ==
  {[code |-> c, text |-> <<>>, callback |-> NoCallback] : c \in {0, 3}}
  \cup {[code |-> 1, text |-> <<97>>, callback |-> NoCallback]}
  \cup {[code |-> 2, text |-> t, callback |-> NoCallback] :
          t \in {<<97>>, UnexpectedResponseCode(3)}}
  \cup {[code |-> 0, text |-> <<>>, callback |-> c] : c \in HostCallbacks}

\* a generation-4 instance without format_range and a generation-3
\* instance
HostFacades ==
  {NewFacade(4, 4, {}, 0, [n |-> 1, fileNames |-> Absent], FacadeMatching),
   [NewFacade(3, 3, {}, MaxBufferSize, [n |-> 1, fileNames |-> <<>>],
              FacadeMatching)
      EXCEPT !.guest.scratch = [i \in 1..MaxBufferSize |-> 0]]}

HostInit ==
  /\ facade \in HostFacades
  /\ plugins = <<>>
  /\ op = NoOp
  /\ result = Returned(<<>>)
  /\ hist = NewHist

\* the calls of formatText: every request without a host formatter to a
\* guest that does not call back, and the request for the text "\u00E9"
\* with every host formatter to a guest that calls back
HostCalls ==
  {[request |-> request, formatWithHost |-> NoFormatter, run |-> run] :
     request \in HostRequests,
     run \in {r \in HostRuns : r.callback.kind = "none"}}
  \cup
  {[request |-> [filePath |-> <<97, 46, 97>>, fileText |-> <<233>>,
                 bytesRange |-> NoRange, overrideConfig |-> NoOverride],
    formatWithHost |-> h, run |-> run] :
     h \in FormatWithHost,
     run \in {r \in HostRuns : r.callback.kind # "none"}}

\* formatText(request, formatWithHost); op.before is the facade the call
\* found
HostFormatText ==
  \E call \in HostCalls :
    LET out == formatText(Begin(facade), call.request, call.formatWithHost,
                          call.run)
    IN Called([name |-> "formatText",
               code |-> IF ReachedFormat(out.f.calls) /\ ~out.f.trapped
                          THEN call.run.code ELSE 0 - 1,
               request |-> call.request,
               formatWithHost |-> call.formatWithHost, run |-> call.run,
               before |-> facade],
              out)

HostNext ==
  \/ HostFormatText
  \/ Return

HostSpec == HostInit /\ [][HostNext]_vars

-----------------------------------------------------------------------------
(* Properties of the callbacks and of the ranges of the standalone        *)
(* facade.  After a call, facade.callbacks holds the host_format call of  *)
(* the guest, facade.hostRet the length the host returned to the guest    *)
(* last and facade.written the bytes the guest fetched.                   *)

\* the call is a formatText whose guest called host_format
HostCallback == op.name = "formatText" /\ Len(facade.callbacks) = 1

\* C14: when formatText got no host formatter, host_format returns 0 to
\* the guest in both generations, the text the host keeps is the
\* callback's text, the guest has nothing to fetch and formatText does
\* not raise.
C14_NoFormatterIsNoOp ==
  (HostCallback /\ op.formatWithHost.kind = "undefined") =>
    /\ facade.callbacks[1].code = 0
    /\ facade.callbacks[1].outcome = Returned(op.run.callback.fileText)
    /\ facade.host.formattedText = op.run.callback.fileText
    /\ facade.written = <<>>
    /\ result = Returned(op.request.fileText)

\* a generation-3 guest called back with the three bytes of "\u00E9a",
\* more than its scratch buffer holds, and no host formatter was there
C14_Witness ==
  /\ HostCallback
  /\ op.formatWithHost.kind = "undefined"
  /\ facade.version = 3
  /\ op.run.callback.fileText = <<233, 97>>
  /\ facade.callbacks[1].code = 0
  /\ result.kind = "returned"

\* C15: host_format returns 0 when the host formatter returns the
\* callback's text, 1 when it returns another text and 2 when it throws.
\* After 1 the guest fetches the bytes of the text the formatter returned
\* for this callback, whose number host_get_formatted_text returned;
\* after 2 it fetches the bytes of String(error) of the error thrown in
\* this callback, whose number host_get_error_text returned.
C15_HostFormatCodes ==
  HostCallback =>
    LET h == op.formatWithHost
        text == op.run.callback.fileText
        returned == IF h.kind = "appends" THEN text \o h.suffix ELSE text
        entry == facade.callbacks[1]
    IN IF h.kind = "throws"
         THEN /\ entry.code = 2
              /\ facade.written = encode(StringOfError(h.message))
              /\ facade.hostRet = Len(encode(StringOfError(h.message)))
       ELSE /\ entry.code = IF returned = text THEN 0 ELSE 1
            /\ entry.request.fileText = text
            /\ entry.code = 1 =>
                 /\ facade.written = encode(returned)
                 /\ facade.hostRet = Len(encode(returned))

\* after a callback that failed, the guest of a generation-3 facade called
\* back again and fetched the four bytes of "\u00E9ah"
C15_Witness ==
  /\ HostCallback
  /\ facade.version = 3
  /\ facade.host.errorText # <<>>
  /\ facade.callbacks[1].code = 1
  /\ facade.written = <<195, 169, 97, 104>>
  /\ facade.hostRet = 4

\* C18: the error formatText throws for a response code other than 0, 1
\* or 2 differs from every error it throws for a failure the plugin
\* reports with code 2, whatever the error text of the plugin is.
C18_ProtocolErrorDistinct ==
  (FormatAnswered /\ op.code = 2) =>
    \A code \in 3..9 : result # Threw(UnexpectedResponseCode(code))

\* C20: on an adapter without format_range, a request with the full byte
\* range of its text has the outcome of the same request without a range.
C20_FullRangeIsNoRange ==
  (/\ op.name = "formatText"
   /\ op.request.bytesRange = FullRange(op.request.fileText)
   /\ "format_range" \notin op.before.exports) =>
    result = formatText(Begin(op.before),
                        [op.request EXCEPT !.bytesRange = NoRange],
                        op.formatWithHost, op.run).r

-----------------------------------------------------------------------------
(* Version detection and instantiation (mod.ts, createFromWasmModule).     *)

\* "get_plugin_schema_version"
GetPluginSchemaVersionName ==
  <<103, 101, 116, 95, 112, 108, 117, 103, 105, 110, 95, 115, 99, 104,
    101, 109, 97, 95, 118, 101, 114, 115, 105, 111, 110>>

\* "dprint_plugin_version_"
VersionPrefix ==
  <<100, 112, 114, 105, 110, 116, 95, 112, 108, 117, 103, 105, 110, 95,
    118, 101, 114, 115, 105, 111, 110, 95>>

\* "memory", an export that names no version
MemoryName == <<109, 101, 109, 111, 114, 121>>

\* a number that is NaN, a value that is undefined
NaN == [defined |-> FALSE, value |-> 0]

Number(n) == [defined |-> TRUE, value |-> n]

IsDigit(c) == c >= 48 /\ c <= 57

RECURSIVE ParseDigits(_, _, _)
\* the value of the digits of `chars` from index i on, up to the first
\* character that is no digit, after the digits of value `acc`
ParseDigits(chars, i, acc) ==
  IF i <= Len(chars) /\ IsDigit(chars[i])
    THEN ParseDigits(chars, i + 1, 10 * acc + (chars[i] - 48))
    ELSE acc

RECURSIVE SkipSpaces(_, _)
\* the index of the first character of `chars` from i on that is no space
SkipSpaces(chars, i) ==
  IF i <= Len(chars) /\ chars[i] = 32 THEN SkipSpaces(chars, i + 1) ELSE i

\* parseInt(chars, 10): leading white space and a sign are skipped, the
\* digits that follow are the value, what follows them is ignored; NaN
\* without a digit
parseInt(chars) ==
  LET start == SkipSpaces(chars, 1)
      negative == start <= Len(chars) /\ chars[start] = 45
      signed == start <= Len(chars) /\ chars[start] \in {43, 45}
      first == IF signed THEN start + 1 ELSE start
  IN IF first <= Len(chars) /\ IsDigit(chars[first])
       THEN Number((IF negative THEN 0 - 1 ELSE 1)
                     * ParseDigits(chars, first, 0))
     ELSE NaN

\* name.startsWith(prefix)
StartsWith(name, prefix) ==
  Len(name) >= Len(prefix) /\ SubSeq(name, 1, Len(prefix)) = prefix

\* a detection that takes the number the export name ends with
getVersionFromExport_suffixOnly(name) ==
  IF StartsWith(name, VersionPrefix)
    THEN parseInt(Slice(name, Len(VersionPrefix)))
  ELSE NaN

\* the version an export name tells, or undefined
getVersionFromExport(name) ==
  IF name = GetPluginSchemaVersionName THEN Number(3)
  ELSE IF StartsWith(name, VersionPrefix)
    THEN parseInt(Slice(name, Len(VersionPrefix)))
  ELSE NaN

RECURSIVE getModuleVersionFrom(_, _)
\* for (const e of exports): the version of the first export from index
\* i on that tells one, or undefined
getModuleVersionFrom(exports, i) ==
  IF i > Len(exports) THEN NaN
  ELSE IF getVersionFromExport(exports[i]).defined
    THEN getVersionFromExport(exports[i])
  ELSE getModuleVersionFrom(exports, i + 1)

getModuleVersion(module) == getModuleVersionFrom(module.exports, 1)

RECURSIVE DigitsOf(_)
\* the decimal digits of a natural number
DigitsOf(n) ==
  IF n < 10 THEN <<48 + n>> ELSE DigitsOf(n \div 10) \o <<48 + (n % 10)>>

\* String(n) of an integer
NumberToString(n) == IF n < 0 THEN <<45>> \o DigitsOf(0 - n) ELSE DigitsOf(n)

\* "Couldn't determine dprint plugin version. Maybe the js-formatter
\* version is too old?"
CouldNotDetermineVersion ==
  <<67, 111, 117, 108, 100, 110, 39, 116, 32, 100, 101, 116, 101, 114,
    109, 105, 110, 101, 32, 100, 112, 114, 105, 110, 116, 32, 112, 108,
    117, 103, 105, 110, 32, 118, 101, 114, 115, 105, 111, 110, 46, 32,
    77, 97, 121, 98, 101, 32, 116, 104, 101, 32, 106, 115, 45, 102, 111,
    114, 109, 97, 116, 116, 101, 114, 32, 118, 101, 114, 115, 105, 111,
    110, 32, 105, 115, 32, 116, 111, 111, 32, 111, 108, 100, 63>>

\* `Unsupported new dprint plugin version '${version}'. Maybe the
\* js-formatter version is too old?`
UnsupportedNewVersion(version) ==
  <<85, 110, 115, 117, 112, 112, 111, 114, 116, 101, 100, 32, 110, 101,
    119, 32, 100, 112, 114, 105, 110, 116, 32, 112, 108, 117, 103, 105,
    110, 32, 118, 101, 114, 115, 105, 111, 110, 32, 39>>
    \o NumberToString(version) \o
  <<39, 46, 32, 77, 97, 121, 98, 101, 32, 116, 104, 101, 32, 106, 115,
    45, 102, 111, 114, 109, 97, 116, 116, 101, 114, 32, 118, 101, 114,
    115, 105, 111, 110, 32, 105, 115, 32, 116, 111, 111, 32, 111, 108,
    100, 63>>

\* `Unsupported old dprint plugin version '${version}'. Please upgrade
\* the plugin.`
UnsupportedOldVersion(version) ==
  <<85, 110, 115, 117, 112, 112, 111, 114, 116, 101, 100, 32, 111, 108,
    100, 32, 100, 112, 114, 105, 110, 116, 32, 112, 108, 117, 103, 105,
    110, 32, 118, 101, 114, 115, 105, 111, 110, 32, 39>>
    \o NumberToString(version) \o
  <<39, 46, 32, 80, 108, 101, 97, 115, 101, 32, 117, 112, 103, 114, 97,
    100, 101, 32, 116, 104, 101, 32, 112, 108, 117, 103, 105, 110, 46>>

\* `Not compatible plugin. Expected schema 3, but plugin had ${n}.`
NotCompatiblePlugin(pluginSchemaVersion) ==
  <<78, 111, 116, 32, 99, 111, 109, 112, 97, 116, 105, 98, 108, 101, 32,
    112, 108, 117, 103, 105, 110, 46, 32, 69, 120, 112, 101, 99, 116,
    101, 100, 32, 115, 99, 104, 101, 109, 97, 32, 51, 44, 32, 98, 117,
    116, 32, 112, 108, 117, 103, 105, 110, 32, 104, 97, 100, 32>>
    \o NumberToString(pluginSchemaVersion) \o <<46>>

\* a version check that lets a plugin of every known generation through
getModuleVersionOrThrow_lenient(module) ==
  LET version == getModuleVersion(module)
  IN IF ~version.defined THEN Threw(CouldNotDetermineVersion)
     ELSE Returned(version.value)

\* the version 3 or 4 of the module, or the error thrown
getModuleVersionOrThrow(module) ==
  LET version == getModuleVersion(module)
  IN IF ~version.defined THEN Threw(CouldNotDetermineVersion)
     ELSE IF version.value = 3 \/ version.value = 4
       THEN Returned(version.value)
     ELSE IF version.value > 4
       THEN Threw(UnsupportedNewVersion(version.value))
     ELSE Threw(UnsupportedOldVersion(version.value))

\* a createFromInstance of v3.ts that takes every schema version
createFromInstance_v3_anySchema(module) ==
  Returned(
    [NewFacade(3, module.schemaVersion, {}, MaxBufferSize,
               [n |-> 1, fileNames |-> <<>>], FacadeMatching)
       EXCEPT !.guest.scratch = [i \in 1..MaxBufferSize |-> 0]])

\* createFromInstance of v3.ts, up to the facade it returns: the schema
\* version the guest's get_plugin_schema_version returns is 2 or 3, or
\* the adapter throws
createFromInstance_v3(module) ==
  IF module.schemaVersion # 2 /\ module.schemaVersion # 3
    THEN Threw(NotCompatiblePlugin(module.schemaVersion))
  ELSE Returned(
         [NewFacade(3, module.schemaVersion, {}, MaxBufferSize,
                    [n |-> 1, fileNames |-> <<>>], FacadeMatching)
            EXCEPT !.guest.scratch = [i \in 1..MaxBufferSize |-> 0]])

\* createFromInstance of v4.ts
createFromInstance_v4(module) ==
  Returned(NewFacade(4, 4, {}, 0, [n |-> 1, fileNames |-> Absent],
                     FacadeMatching))

\* createFromWasmModule(wasmModule): the facade returned or the error
\* thrown, the plugin instances created (new WebAssembly.Instance), the
\* generations of the adapters whose createFromInstance was called and
\* the guest exports called on the way
createFromWasmModule(module) ==
  LET version == getModuleVersionOrThrow(module)
  IN IF version.kind = "threw"
       THEN [r |-> version, instances |-> 0, adapters |-> <<>>,
             calls |-> <<>>]
     ELSE IF version.value = 3
       THEN [r |-> createFromInstance_v3(module), instances |-> 1,
             adapters |-> <<3>>, calls |-> <<"get_plugin_schema_version">>]
     ELSE [r |-> createFromInstance_v4(module), instances |-> 1,
           adapters |-> <<4>>, calls |-> <<>>]

\* the most exports a module of the model declares
MaxExports == 2

\* what follows the prefix in the export names of the model: nothing,
\* "4", "3", "9", "2", "x", "4x", "-1", "04", "10"
VersionSuffixes ==
  {<<>>, <<52>>, <<51>>, <<57>>, <<50>>, <<120>>, <<52, 120>>, <<45, 49>>,
   <<48, 52>>, <<49, 48>>}

ExportNames ==
  {GetPluginSchemaVersionName, MemoryName}
    \cup {VersionPrefix \o suffix : suffix \in VersionSuffixes}

\* the compiled modules: the names they export, in the order of
\* WebAssembly.Module.exports, and what their get_plugin_schema_version
\* returns when it is called
Modules ==
  [exports : SeqsUpTo(ExportNames, MaxExports), schemaVersion : {2, 3, 4, 5}]

\* a module waits to be instantiated
DetectInit ==
  /\ facade = NewFacade(4, 4, {}, 0, [n |-> 1, fileNames |-> Absent],
                        FacadeMatching)
  /\ plugins = <<>>
  /\ op \in {[name |-> "module", code |-> 0 - 1, module |-> m] : m \in Modules}
  /\ result = Returned(<<>>)
  /\ hist = NewHist

\* createFromWasmModule(module); op.instances and op.adapters are the
\* instances it created and the adapters it called
CreateFromWasmModule ==
  /\ op.name = "module"
  /\ LET out == createFromWasmModule(op.module)
     IN /\ op' = [name |-> "createFromWasmModule", code |-> 0 - 1,
                  module |-> op.module, instances |-> out.instances,
                  adapters |-> out.adapters, calls |-> out.calls]
        /\ result' = out.r
  /\ UNCHANGED <<facade, plugins, hist>>

DetectNext == CreateFromWasmModule

DetectSpec == DetectInit /\ [][DetectNext]_vars

\* the module was instantiated
Instantiated == op.name = "createFromWasmModule"

\* the exports of a module that are neither get_plugin_schema_version nor
\* begin with the version prefix
NamesNoVersion(module) ==
  {i \in 1..Len(module.exports) :
     /\ module.exports[i] # GetPluginSchemaVersionName
     /\ ~StartsWith(module.exports[i], VersionPrefix)}

\* the module exports `name`, and no other export of it could name a
\* version
OnlyVersionExport(module, name) ==
  /\ \E i \in 1..Len(module.exports) : module.exports[i] = name
  /\ \A i \in 1..Len(module.exports) :
       module.exports[i] = name \/ i \in NamesNoVersion(module)

\* the module exports `name`, and none of the exports before it is
\* get_plugin_schema_version or begins with the version prefix
FirstVersionExport(module, name) ==
  \E i \in 1..Len(module.exports) :
    /\ module.exports[i] = name
    /\ \A j \in 1..(i - 1) : j \in NamesNoVersion(module)

\* C16: a module whose one version export is get_plugin_schema_version is
\* handed to the adapter of generation 3 whatever that export returns, a
\* module whose first version export is dprint_plugin_version_4 to the
\* adapter of generation 4; one instance is created, one adapter is
\* called, and a facade that is returned is the facade of the generation
\* detected from the export names.
C16_DetectionByExportNames ==
  Instantiated =>
    /\ OnlyVersionExport(op.module, GetPluginSchemaVersionName) =>
         /\ op.adapters = <<3>>
         /\ op.instances = 1
         /\ result.kind = "returned" => result.value.version = 3
    /\ FirstVersionExport(op.module, VersionPrefix \o <<52>>) =>
         /\ op.adapters = <<4>>
         /\ op.instances = 1
         /\ result.kind = "returned" /\ result.value.version = 4
    /\ result.kind = "returned" =>
         /\ getModuleVersion(op.module).defined
         /\ op.adapters = <<getModuleVersion(op.module).value>>
         /\ result.value.version = getModuleVersion(op.module).value

\* a module that exports memory and get_plugin_schema_version, which
\* returns 5, went to the adapter of generation 3
C16_Witness ==
  /\ Instantiated
  /\ op.module.exports = <<MemoryName, GetPluginSchemaVersionName>>
  /\ op.module.schemaVersion = 5
  /\ op.adapters = <<3>>
  /\ result.kind = "threw"

\* C17: instantiation fails with the error of an undeterminable version
\* when no export name tells a version, with the error of a plugin too
\* new when the version detected is greater than 4 and with the error of
\* a plugin too old when it is less than 3; no instance is created, no
\* facade is returned and no adapter is called.
C17_NegotiationErrors ==
  Instantiated =>
    LET version == getModuleVersion(op.module)
        failed == /\ result.kind = "threw"
                  /\ op.instances = 0
                  /\ op.adapters = <<>>
    IN /\ (\A i \in 1..Len(op.module.exports) :
             i \in NamesNoVersion(op.module)) =>
            failed /\ result.value = CouldNotDetermineVersion
       /\ ~version.defined => failed /\ result.value = CouldNotDetermineVersion
       /\ (version.defined /\ version.value > 4) =>
            failed /\ result.value = UnsupportedNewVersion(version.value)
       /\ (version.defined /\ version.value < 3) =>
            failed /\ result.value = UnsupportedOldVersion(version.value)

\* a module that exports dprint_plugin_version_9 and, after it,
\* dprint_plugin_version_4 was refused as too new
C17_Witness ==
  /\ Instantiated
  /\ op.module.exports = <<VersionPrefix \o <<57>>, VersionPrefix \o <<52>> >>
  /\ result = Threw(UnsupportedNewVersion(9))
  /\ op.instances = 0
  /\ op.adapters = <<>>

-----------------------------------------------------------------------------
(* Streaming sources (mod.ts, createStreaming and addPluginStreaming).     *)

\* "Unexpected status code: "
UnexpectedStatusCode ==
  <<85, 110, 101, 120, 112, 101, 99, 116, 101, 100, 32, 115, 116, 97, 116,
    117, 115, 32, 99, 111, 100, 101, 58, 32>>

\* `Unexpected status code: ${response.status}\n${await response.text()}`
UnexpectedStatus(status, text) ==
  UnexpectedStatusCode \o NumberToString(status) \o <<10>> \o text

\* "application/wasm"
ApplicationWasm ==
  <<97, 112, 112, 108, 105, 99, 97, 116, 105, 111, 110, 47, 119, 97, 115,
    109>>

\* "text/html"
TextHtml == <<116, 101, 120, 116, 47, 104, 116, 109, 108>>

\* headers.get("content-type") of a response without the header: null
NoHeader == <<0 - 1>>

\* "body used": the reason response.text() rejects with
BodyUsed == <<98, 111, 100, 121, 32, 117, 115, 101, 100>>

\* a createWasmModuleFromStreaming that compiles whatever the status is
createWasmModuleFromStreaming_anyStatus(response, streaming) ==
  IF streaming /\ response.contentType = ApplicationWasm
    THEN [r |-> Returned(response.module), compiled |-> <<"compileStreaming">>]
  ELSE [r |-> Returned(response.module), compiled |-> <<"Module">>]

\* createWasmModuleFromStreaming(response): the module or the error, and
\* the compilations made.  `streaming` tells whether
\* WebAssembly.instantiateStreaming is a function; response.text is what
\* response.text() resolves to or rejects with, response.module the module
\* the body compiles to.
createWasmModuleFromStreaming(response, streaming) ==
  IF response.status # 200
    THEN IF response.text.kind = "threw"
           THEN [r |-> response.text, compiled |-> <<>>]
         ELSE [r |-> Threw(UnexpectedStatus(response.status,
                                            response.text.value)),
               compiled |-> <<>>]
  ELSE IF streaming /\ response.contentType = ApplicationWasm
    THEN [r |-> Returned(response.module), compiled |-> <<"compileStreaming">>]
  ELSE [r |-> Returned(response.module), compiled |-> <<"Module">>]

\* createFromWasmModule of the module a source was compiled to
createFromCompiled(compiled, created) ==
  [r |-> created.r, compiled |-> compiled.compiled,
   instances |-> created.instances, adapters |-> created.adapters]

\* the end of createStreaming once the source was or was not compiled
createStreamingFrom(compiled) ==
  IF compiled.r.kind = "threw"
    THEN [r |-> compiled.r, compiled |-> compiled.compiled,
          instances |-> 0, adapters |-> <<>>]
  ELSE createFromCompiled(compiled, createFromWasmModule(compiled.r.value))

createStreaming(response, streaming) ==
  createStreamingFrom(createWasmModuleFromStreaming(response, streaming))

\* this.addPlugin(wasmModule, pluginConfig) once the module is
\* instantiated, or the error of the instantiation
addPluginCreated(ps, globalConfig, made, pluginConfig) ==
  IF made.r.kind = "threw"
    THEN [plugins |-> ps, r |-> made.r, compiled |-> made.compiled,
          instances |-> made.instances, adapters |-> made.adapters]
  ELSE addPlugin(ps, globalConfig, made.r.value, pluginConfig)
         @@ [compiled |-> made.compiled, instances |-> made.instances,
             adapters |-> made.adapters]

addPluginStreaming(ps, globalConfig, response, streaming, pluginConfig) ==
  addPluginCreated(ps, globalConfig, createStreaming(response, streaming),
                   pluginConfig)

\* the modules of the streaming sources: a plugin of generation 4, one of
\* generation 3 and a module that names no version
StreamModules ==
  {[exports |-> <<VersionPrefix \o <<52>> >>, schemaVersion |-> 3],
   [exports |-> <<GetPluginSchemaVersionName>>, schemaVersion |-> 3],
   [exports |-> <<MemoryName>>, schemaVersion |-> 3]}

Responses ==
  [status : {200, 404, 500},
   text : {Returned(t) : t \in Texts} \cup {Threw(BodyUsed)},
   contentType : {ApplicationWasm, TextHtml, NoHeader},
   module : StreamModules]

\* a streaming call was made as `o` and ended as `out`
StreamCalled(o, out) ==
  /\ Idle
  /\ op' = o @@ [code |-> 0 - 1, before |-> plugins,
                 compiled |-> out.compiled, instances |-> out.instances,
                 adapters |-> out.adapters]
  /\ result' = out.r
  /\ UNCHANGED <<facade, hist>>

CreateStreaming ==
  \E response \in Responses, streaming \in BOOLEAN :
    /\ StreamCalled([name |-> "createStreaming", response |-> response],
                    createStreaming(response, streaming))
    /\ UNCHANGED plugins

AddPluginStreaming ==
  /\ Len(plugins) < MaxPlugins
  /\ \E response \in Responses, streaming \in BOOLEAN :
       /\ StreamCalled([name |-> "addPluginStreaming", response |-> response],
                       addPluginStreaming(plugins, RouterGlobalConfig,
                                          response, streaming, <<>>))
       /\ plugins' = addPluginStreaming(plugins, RouterGlobalConfig,
                                        response, streaming, <<>>).plugins

StreamNext ==
  \/ CreateStreaming
  \/ AddPluginStreaming
  \/ RouterReturn

StreamSpec == RouterInit /\ [][StreamNext]_vars

\* str.includes(sub)
Contains(str, sub) ==
  \E i \in 0..(Len(str) - Len(sub)) : SubSeq(str, i + 1, i + Len(sub)) = sub

\* a streaming call on a source whose status is not 200 has ended
RefusedStatus ==
  /\ op.name \in {"createStreaming", "addPluginStreaming"}
  /\ op.response.status # 200

\* C21: createStreaming and addPluginStreaming on a source whose status is
\* not 200 fail; the error contains the status code and the text of the
\* response when the response has a text; nothing was compiled, no
\* instance was created, no adapter was called and the plugins of the
\* context are the ones the call found.
C21_Non200Refused ==
  RefusedStatus =>
    /\ result.kind = "threw"
    /\ op.response.text.kind = "returned" =>
         /\ Contains(result.value, NumberToString(op.response.status))
         /\ Contains(result.value, op.response.text.value)
         /\ Contains(result.value, UnexpectedStatusCode)
    /\ op.compiled = <<>>
    /\ op.instances = 0
    /\ op.adapters = <<>>
    /\ plugins = op.before

\* a context with a registered plugin refused a source of status 404 with
\* a text
C21_Witness ==
  /\ RefusedStatus
  /\ op.name = "addPluginStreaming"
  /\ op.response.status = 404
  /\ op.response.text = Returned(<<233, 97>>)
  /\ Len(op.before) = 1
  /\ result.kind = "threw"

-----------------------------------------------------------------------------
(* The diagnostics of a context (mod.ts, createContext.getConfigDiagnostics). *)

\* the diagnostics the guest of a plugin reports: none, one, two in
\* descending order, the same one twice
RouterDiagLists == {<<>>, <<1>>, <<2, 1>>, <<2, 2>>}

\* getConfigDiagnostics() of the context; the guest of plugin i reports
\* diags[i]
RouterDiagnostics ==
  \E diags \in [1..Len(plugins) -> RouterDiagLists] :
    RouterCalled([name |-> "context.getConfigDiagnostics", code |-> 0 - 1,
                  before |-> plugins, diags |-> diags],
                 contextGetConfigDiagnostics(plugins, diags))

\* the facades of the modules added to the context: two plugins of
\* generation 4 and one of generation 3
DiagFacades ==
  {NewFacade(4, 4, {"format_range"}, 0, [n |-> 1, fileNames |-> Absent], m) :
     m \in {[fileExtensions |-> << <<97>> >>, fileNames |-> <<>>],
            [fileExtensions |-> << <<98>> >>, fileNames |-> <<>>]}}
  \cup
  {[NewFacade(3, 3, {}, MaxBufferSize, [n |-> 1, fileNames |-> <<>>],
              FacadeMatching)
      EXCEPT !.guest.scratch = [i \in 1..MaxBufferSize |-> 0]]}

DiagAddPlugin ==
  /\ Len(plugins) < MaxPlugins
  /\ \E formatter \in DiagFacades :
       RouterCalled([name |-> "addPlugin", code |-> 0 - 1, before |-> plugins],
                    addPlugin(plugins, RouterGlobalConfig, formatter, <<>>))

DiagNext ==
  \/ DiagAddPlugin
  \/ RouterDiagnostics
  \/ RouterReturn

DiagSpec == RouterInit /\ [][DiagNext]_vars

RECURSIVE Flatten(_)
\* the lists of a sequence of lists, one after the other
Flatten(lists) ==
  IF lists = <<>> THEN <<>>
  ELSE Flatten(SubSeq(lists, 1, Len(lists) - 1)) \o lists[Len(lists)]

\* getConfigDiagnostics() of the context has ended
DiagnosticsCalled ==
  op.name = "context.getConfigDiagnostics" /\ "diags" \in DOMAIN op

\* C22: getConfigDiagnostics of the context returns the diagnostics of the
\* registered plugins one list after the other in registration order, each
\* list as the plugin reported it, and every plugin was asked once.
C22_DiagnosticsConcatenated ==
  DiagnosticsCalled =>
    /\ result = Returned(Flatten(op.diags))
    /\ Len(plugins) = Len(op.before)
    /\ \A i \in 1..Len(plugins) :
         Cardinality(CallsOf(plugins[i].formatter.calls,
                             {"get_config_diagnostics"})) = 1

\* two plugins reported [2, 1] and [2, 2]: the context returned [2, 1, 2, 2]
C22_Witness ==
  /\ DiagnosticsCalled
  /\ op.diags = << <<2, 1>>, <<2, 2>> >>
  /\ result = Returned(<<2, 1, 2, 2>>)

-----------------------------------------------------------------------------
(* Letter case of the paths a context routes.                              *)

\* the paths of the requests: a.a a.A A.A A a a.b, and a.Σ a.σ a.ς
CasePaths ==
  {<<97, 46, 97>>, <<97, 46, 65>>, <<65, 46, 65>>, <<65>>, <<97>>,
   <<97, 46, 98>>, <<97, 46, 931>>, <<97, 46, 963>>, <<97, 46, 962>>}

\* the file matching infos of the plugins: the extension "Σ", the
\* extensions "A", "a" and "b", the file names "a.a" and "A"
CaseMatching ==
  {[fileExtensions |-> << <<931>> >>, fileNames |-> <<>>],
   [fileExtensions |-> << <<65>>, <<97>>, <<98>> >>, fileNames |-> <<>>],
   [fileExtensions |-> <<>>, fileNames |-> << <<97, 46, 97>>, <<65>> >>]}

CaseFacades ==
  {NewFacade(4, 4, {"format_range"}, 0, [n |-> 1, fileNames |-> Absent], m) :
     m \in CaseMatching}

CaseAddPlugin ==
  /\ Len(plugins) < MaxPlugins
  /\ \E formatter \in CaseFacades :
       RouterCalled([name |-> "addPlugin", code |-> 0 - 1, before |-> plugins],
                    addPlugin(plugins, RouterGlobalConfig, formatter, <<>>))

CaseFormatText ==
  \E filePath \in CasePaths, run \in RouterRuns :
    LET request == [filePath |-> filePath, fileText |-> <<233>>,
                    bytesRange |-> NoRange, overrideConfig |-> NoOverride]
    IN RouterCalled([name |-> "context.formatText", code |-> 0 - 1,
                     before |-> plugins, request |-> request, run |-> run],
                    contextFormatText(plugins, request, run))

CaseNext ==
  \/ CaseAddPlugin
  \/ CaseFormatText
  \/ RouterReturn

CaseSpec == RouterInit /\ [][CaseNext]_vars

\* the letters of a string without their case: A-Z as a-z, the three
\* sigmas as one
CaseFold(str) ==
  [i \in 1..Len(str) |->
     IF str[i] >= 65 /\ str[i] <= 90 THEN str[i] + 32
     ELSE IF str[i] \in {931, 962} THEN 963
     ELSE str[i]]

\* the plugins findPluginForFile finds for a path: one plugin or none
FoundFor(ps, filePath) ==
  LET found == findPluginForFile(ps, filePath)
  IN IF found = 0 THEN {} ELSE {found}

\* the part of a file name after its last dot, as it is written
WrittenExtension(fileName) ==
  LET lastDot == LastIndexOf(fileName, 46)
  IN IF lastDot > 0 THEN Slice(fileName, lastDot + 1) ELSE NoExtension

\* the plugins of `ps` that declared, in whatever case, the file name or
\* the extension of a file name
DeclaredFor(ps, fileName) ==
  {i \in 1..Len(ps) :
     LET m == ps[i].formatter.matching
     IN \/ \E k \in 1..Len(m.fileNames) :
             CaseFold(m.fileNames[k]) = CaseFold(fileName)
        \/ /\ WrittenExtension(fileName) # NoExtension
           /\ \E k \in 1..Len(m.fileExtensions) :
                CaseFold(m.fileExtensions[k])
                  = CaseFold(WrittenExtension(fileName))}

\* C23: a path is routed as every path that differs from it only in the
\* case of its letters is (to the same plugin, or to none), and a plugin
\* that declared the file name or the extension of the path, in whatever
\* case, makes the path one that is routed.
C23_CaseInsensitiveRouting ==
  op.name = "context.formatText" =>
    /\ \A other \in CasePaths :
         CaseFold(other) = CaseFold(op.request.filePath)
           => FoundFor(op.before, other) = PluginsCalled
    /\ DeclaredFor(op.before, op.request.filePath) # {}
         => PluginsCalled # {}

-----------------------------------------------------------------------------
(* Several instances held by one caller: each createFromInstance call has *)
(* its own closure (configSet) and its own createHost closure.             *)

\* a facade the caller holds, with the extension its host formatter
\* routes to it
Held(f, ext) ==
  [formatter |-> f, pluginConfig |-> <<>>,
   fileExtensions |-> <<ext>>, fileNames |-> <<>>]

\* the instances: one of generation 4, for "*.a", and one of generation
\* 3, for "*.b"
Instances ==
  <<Held(NewFacade(4, 4, {}, 0, [n |-> 1, fileNames |-> Absent],
                   FacadeMatching), <<97>>),
    Held([NewFacade(3, 3, {}, MaxBufferSize, [n |-> 1, fileNames |-> <<>>],
                    FacadeMatching)
            EXCEPT !.guest.scratch = [i \in 1..MaxBufferSize |-> 0]], <<98>>)>>

InstancesInit ==
  /\ facade = NewFacade(4, 4, {}, 0, [n |-> 1, fileNames |-> Absent],
                        FacadeMatching)
  /\ plugins = Instances
  /\ op = NoOp
  /\ result = Returned(<<>>)
  /\ hist = NewHist

\* the host formatters the caller passes to formatText of instance i:
\* none, and one that formats with the instance the path belongs to when
\* that is another instance
InstanceFormatters(i) ==
  {NoFormatter, [kind |-> "bridge", currentPlugin |-> i]}

\* a callback of a guest for the path
InstanceCallback(filePath) ==
  [kind |-> "host_format", filePath |-> filePath, fileText |-> <<97>>,
   range |-> NoRange, overrideConfig |-> NoOverride]

\* the format export answers 1 with the text "a" without a callback, or
\* 0 after a callback: for "a.b", which the format export of the
\* instance it is delegated to answers with 1 and "b", or for "a.a",
\* which that one answers with 2 and "x"
InstanceRuns ==
  {[code |-> 1, text |-> <<97>>, callback |-> NoCallback,
    nested |-> [code |-> 0, text |-> <<>>]],
   [code |-> 0, text |-> <<>>, callback |-> InstanceCallback(<<97, 46, 98>>),
    nested |-> [code |-> 1, text |-> <<98>>]],
   [code |-> 0, text |-> <<>>, callback |-> InstanceCallback(<<97, 46, 97>>),
    nested |-> [code |-> 2, text |-> <<120>>]]}

InstanceRequest ==
  [filePath |-> <<97, 46, 97>>, fileText |-> <<233>>, bytesRange |-> NoRange,
   overrideConfig |-> NoOverride]

\* setConfig(globalConfig, {}) of instance i
InstanceSetConfig ==
  \E i \in 1..Len(plugins), g \in {RouterGlobalConfig} :
    RouterCalled([name |-> "setConfig", code |-> 0 - 1, plugin |-> i,
                  before |-> plugins, formatWithHost |-> NoFormatter,
                  run |-> [code |-> 0, text |-> <<>>]],
                 contextOutcome(plugins, i,
                                [f |-> setConfig(plugins[i].formatter, g, <<>>),
                                 r |-> Returned(<<>>)]))

\* formatText(request, formatWithHost) of instance i
InstanceFormatText ==
  \E i \in 1..Len(plugins) :
    \E h \in InstanceFormatters(i), run \in InstanceRuns :
      RouterCalled([name |-> "formatText", code |-> 0 - 1, plugin |-> i,
                    before |-> plugins, formatWithHost |-> h, run |-> run],
                   contextOutcome(plugins, i,
                                  formatText(plugins[i].formatter,
                                             InstanceRequest, h, run)))

InstancesNext ==
  \/ InstanceSetConfig
  \/ InstanceFormatText
  \/ RouterReturn

InstancesSpec == InstancesInit /\ [][InstancesNext]_vars

\* the bridge state and the configuration state of a facade: the staging
\* buffer, the host formatter, the last formatted text and the last error
\* text of its host bridge, its configured flag and what its guest holds
BridgeState(f) ==
  [sharedBuffer |-> f.host.sharedBuffer, hostFormatter |-> f.hostFormatter,
   formattedText |-> f.host.formattedText, errorText |-> f.host.errorText,
   configSet |-> f.configSet, config |-> GuestConfig(f)]

\* the call was made on an instance
OnInstance == op.name \in {"setConfig", "formatText"} /\ "plugin" \in DOMAIN op

\* the instances the host formatter of the call formatted with
Delegated ==
  IF /\ OnInstance
     /\ op.formatWithHost.kind = "bridge"
     /\ plugins[op.plugin].formatter.callbacks # <<>>
    THEN {findPluginForFile(op.before, CallbackOf(op.run).filePath)}
           \ {0, op.plugin}
  ELSE {}

\* C24: a call on one instance leaves the bridge state and the
\* configuration state of every other instance as they were; when its
\* host formatter formats with another instance, that nested formatText
\* changes the state of the instance it runs on only (its host formatter
\* is cleared, its bridge texts stay) and leaves the calling instance
\* with the host formatter of its own call and with the text or the error
\* its own host_format stored.
C24_InstancesIsolated ==
  OnInstance =>
    /\ \A j \in 1..Len(plugins) :
         j \notin Delegated \cup {op.plugin} =>
           BridgeState(plugins[j].formatter)
             = BridgeState(op.before[j].formatter)
    /\ \A j \in Delegated :
         LET caller == plugins[op.plugin].formatter
             other == plugins[j].formatter
             nested == caller.callbacks[1].outcome
         IN /\ caller.hostFormatter = op.formatWithHost
            /\ caller.configSet
            /\ nested.kind = "returned" =>
                 caller.host.formattedText = nested.value
            /\ nested.kind = "threw" =>
                 caller.host.errorText = StringOfError(nested.value)
            /\ other.hostFormatter = NoFormatter
            /\ other.configSet
            /\ other.host = op.before[j].formatter.host
            /\ other.callbacks = <<>>

\* the first instance, never configured and formatting "a.a" with a host
\* formatter, delegated its guest's callback for "a.b" to the second
\* instance, which formatted it as "b"
C24_Witness ==
  /\ OnInstance
  /\ op.name = "formatText"
  /\ op.plugin = 1
  /\ ~op.before[1].formatter.configSet
  /\ Delegated = {2}
  /\ plugins[1].formatter.callbacks[1].outcome = Returned(<<98>>)
  /\ plugins[1].formatter.hostFormatter # plugins[2].formatter.hostFormatter

-----------------------------------------------------------------------------
(* The ranges the standalone facade hands to the guest.                    *)

\* C25: the start and the end of every format_range call a formatText
\* makes lie within 0 and the number of bytes of the UTF-8 encoding of
\* the request's file text.
C25_RangeWithinText ==
  op.name = "formatText" =>
    \A i \in CallsOf(facade.calls, {"format_range"}) :
      /\ 0 <= facade.calls[i].args[2]
      /\ facade.calls[i].args[2] <= Len(encode(op.request.fileText))
      /\ 0 <= facade.calls[i].args[3]
      /\ facade.calls[i].args[3] <= Len(encode(op.request.fileText))

-----------------------------------------------------------------------------
(* The byte channel, traced: the facade whose calls of the channel's       *)
(* exports are logged like every other guest call.                         *)

\* a generation-4 instance with format_range, and generation-3 instances
\* whose scratch buffer has 1 to MaxBufferSize bytes
ChannelFacades ==
  {[NewFacade(4, 4, {"format_range"}, 0, [n |-> 1, fileNames |-> Absent],
              FacadeMatching)
      EXCEPT !.trace = TRUE]}
  \cup
  {[NewFacade(3, 3, {}, b, [n |-> 1, fileNames |-> <<>>], FacadeMatching)
      EXCEPT !.trace = TRUE, !.guest.scratch = [i \in 1..b |-> 0]] :
     b \in 1..MaxBufferSize}

ChannelInit ==
  /\ facade \in ChannelFacades
  /\ plugins = <<>>
  /\ op = NoOp
  /\ result = Returned(<<>>)
  /\ hist = NewHist

ChannelSpec == ChannelInit /\ [][Next]_vars

\* the smallest number of chunks of at most b bytes that hold n bytes
Chunks(n, b) == (n + b - 1) \div b

\* the size of chunk j of n bytes sent in chunks of b bytes
ChunkSize(n, b, j) == Min(b, n - (j - 1) * b)

\* the call at position i of the log is a call of the export
IsCall(calls, i, name) == i \in 1..Len(calls) /\ calls[i].name = name

\* the text the guest staged for the call to fetch: the formatted text
\* of response code 1, the error text of response code 2
Staged ==
  IF op.name = "formatText" /\ op.code \in {1, 2} THEN encode(op.run.text)
  ELSE <<>>

\* C26: on a generation-3 instance whose scratch buffer has B >= 1 bytes,
\* every clear_shared_bytes(n) is followed by exactly ceil(n / B) calls
\* of add_to_shared_bytes_from_buffer, chunk j having min(B, n - (j-1)B)
\* bytes, and no chunk is appended otherwise; the guest's format export
\* read the encoded file path and file text; a text of n staged bytes is
\* fetched by exactly ceil(n / B) calls of set_buffer_with_shared_bytes,
\* at the offsets 0, B, 2B, ... with the same chunk sizes, and the call
\* returns (or throws) exactly the staged text.
C26_StagedCopyChunks ==
  facade.version = 3 =>
    LET calls == facade.calls
        B == facade.bufferSize
        clears == CallsOf(calls, {"clear_shared_bytes"})
        appends == CallsOf(calls, {"add_to_shared_bytes_from_buffer"})
        fills == CallsOf(calls, {"set_buffer_with_shared_bytes"})
    IN /\ \A i \in clears :
            LET n == calls[i].args[1]
            IN /\ \A j \in 1..Chunks(n, B) :
                    /\ IsCall(calls, i + j, "add_to_shared_bytes_from_buffer")
                    /\ calls[i + j].args = <<ChunkSize(n, B, j)>>
               /\ ~IsCall(calls, i + Chunks(n, B) + 1,
                          "add_to_shared_bytes_from_buffer")
       /\ \A a \in appends :
            \E i \in clears :
              i < a /\ a <= i + Chunks(calls[i].args[1], B)
       /\ (op.name = "formatText" /\ op.code >= 0) =>
            /\ facade.guest.used.filePath = encode(op.request.filePath)
            /\ facade.guest.used.fileBytes = encode(op.request.fileText)
            /\ Cardinality(fills) = Chunks(Len(Staged), B)
            /\ \A i \in fills :
                 LET j == Cardinality({k \in fills : k <= i})
                 IN calls[i].args
                      = <<(j - 1) * B, ChunkSize(Len(Staged), B, j)>>
            /\ op.code = 1 => result = Returned(op.run.text)
            /\ op.code = 2 => result = Threw(op.run.text)

\* a scratch buffer of 2 bytes: the 3 bytes of the file text "\u00E9a"
\* were sent in 2 chunks, and the 3 bytes the guest formatted it to were
\* fetched in 2 chunks at the offsets 0 and 2
C26_Witness ==
  /\ facade.version = 3
  /\ facade.bufferSize = 2
  /\ op.name = "formatText"
  /\ op.code = 1
  /\ op.request.fileText = <<233, 97>>
  /\ op.run.text = <<233, 97>>
  /\ result = Returned(<<233, 97>>)
  /\ Cardinality(CallsOf(facade.calls, {"set_buffer_with_shared_bytes"})) = 2

\* the exports of the byte channel that return a buffer pointer
PointerExports ==
  {"clear_shared_bytes", "get_shared_bytes_ptr", "get_wasm_memory_buffer"}

\* the exports of the byte channel that can invalidate a buffer pointer
InvalidatingExports ==
  {"clear_shared_bytes", "add_to_shared_bytes_from_buffer",
   "set_buffer_with_shared_bytes"}

\* C27: every copy to or from guest memory goes through a pointer that a
\* guest call returned and that no later clear, append or fill call
\* preceded the copy.
C27_PointerMomentary ==
  \A c \in 1..Len(facade.copies) :
    LET copy == facade.copies[c]
    IN /\ copy.pointer \in 1..Len(facade.calls)
       /\ facade.calls[copy.pointer].name \in PointerExports
       /\ \A i \in (copy.pointer + 1)..copy.at :
            facade.calls[i].name \notin InvalidatingExports

\* the exports a formatText calls once the configuration is registered,
\* the exports of the byte channel apart
FormatSteps ==
  {"set_override_config", "set_file_path", "format", "format_range",
   "get_formatted_text", "get_error_text"}

\* the transfer that precedes the call at position i of the log: the
\* position of the last clear_shared_bytes before i, when only calls of
\* the byte channel lie between the two, else 0
TransferBefore(calls, i) ==
  LET clears == {c \in CallsOf(calls, {"clear_shared_bytes"}) :
                   /\ c < i
                   /\ \A k \in (c + 1)..(i - 1) :
                        calls[k].name \in ChannelExports}
  IN IF clears = {} THEN 0
     ELSE CHOOSE c \in clears : \A d \in clears : d <= c

\* the steps of the call, in the order of the log
Steps(calls) ==
  LET at == CallsOf(calls, FormatSteps)
      nth(k) == CHOOSE i \in at : Cardinality({j \in at : j <= i}) = k
  IN [k \in 1..Cardinality(at) |-> calls[nth(k)].name]

\* the steps a request is to take up to its format call
StepsOf(request) ==
  (IF request.overrideConfig # NoOverride THEN <<"set_override_config">>
   ELSE <<>>)
  \o <<"set_file_path">>
  \o <<IF request.bytesRange # NoRange THEN "format_range" ELSE "format">>

\* the number of bytes the transfer before the step sends
SentBefore(request, name) ==
  CASE name = "set_override_config" ->
         Len(encode(StringifyConfig(request.overrideConfig)))
    [] name = "set_file_path" -> Len(encode(request.filePath))
    [] OTHER -> Len(encode(request.fileText))

\* C28: a formatText that reaches the format export of the guest sends
\* the override configuration and calls set_override_config (when the
\* request has one), sends the file path and calls set_file_path, sends
\* the file text and calls format or format_range once, in this order;
\* get_formatted_text and get_error_text are called after the format
\* call only, and the guest's format export read what was sent.
C28_FormatStepsInOrder ==
  (op.name = "formatText" /\ ReachedFormat(facade.calls)) =>
    LET calls == facade.calls
        steps == Steps(calls)
        expected == StepsOf(op.request)
    IN /\ Len(steps) >= Len(expected)
       /\ SubSeq(steps, 1, Len(expected)) = expected
       /\ \A k \in (Len(expected) + 1)..Len(steps) :
            steps[k] \in {"get_formatted_text", "get_error_text"}
       /\ \A i \in CallsOf(calls, {"set_override_config", "set_file_path",
                                   "format", "format_range"}) :
            /\ TransferBefore(calls, i) # 0
            /\ calls[TransferBefore(calls, i)].args
                 = <<SentBefore(op.request, calls[i].name)>>
       /\ ~facade.trapped =>
            /\ facade.guest.used.filePath = encode(op.request.filePath)
            /\ facade.guest.used.fileBytes = encode(op.request.fileText)
            /\ facade.guest.used.overrideConfig =
                 IF op.request.overrideConfig = NoOverride THEN Unset
                 ELSE encode(StringifyConfig(op.request.overrideConfig))

\* a request with an override configuration and a range, formatted by
\* format_range, which answered 1
C28_Witness ==
  /\ op.name = "formatText"
  /\ op.code = 1
  /\ op.request.overrideConfig # NoOverride
  /\ op.request.bytesRange # NoRange
  /\ Steps(facade.calls)
       = <<"set_override_config", "set_file_path", "format_range",
           "get_formatted_text">>
  /\ result = Returned(op.run.text)

-----------------------------------------------------------------------------
(* The configuration a first formatText leaves.                            *)

\* C29: a formatText on a facade that was never configured (no setConfig
\* and no implicit registration before it) leaves the facade configured,
\* with a configuration registered in the guest, whatever the request
\* carries.
C29_FirstFormatConfigures ==
  (/\ op.name = "formatText"
   /\ ~op.before.configSet
   /\ ~Registered(op.before.version, op.before.guest)) =>
    /\ facade.configSet
    /\ Registered(facade.version, facade.guest)

-----------------------------------------------------------------------------
(* The precedence of the exports that tell the generation.                 *)

\* the module exports get_plugin_schema_version
HasSchemaExport(module) ==
  \E i \in 1..Len(module.exports) :
    module.exports[i] = GetPluginSchemaVersionName

\* the integer the suffix of a dprint_plugin_version_ export parses as,
\* or NaN for another export and for a suffix that does not parse
SuffixVersion(name) ==
  IF StartsWith(name, VersionPrefix)
    THEN parseInt(Slice(name, Len(VersionPrefix)))
  ELSE NaN

\* the positions of the exports whose suffix parses as an integer
Parseable(module) ==
  {i \in 1..Len(module.exports) : SuffixVersion(module.exports[i]).defined}

\* the adapters a module of the generation is handed to
AdaptersOf(version) == IF version \in {3, 4} THEN <<version>> ELSE <<>>

\* C30: a module that exports get_plugin_schema_version is handed to the
\* adapter of generation 3 wherever the export stands among the others;
\* a module without it is classified by the first of its
\* dprint_plugin_version_N exports, in declaration order, whose suffix
\* parses as an integer, and by none when no suffix parses.
C30_SchemaExportFirst ==
  Instantiated =>
    /\ HasSchemaExport(op.module) => op.adapters = <<3>>
    /\ (~HasSchemaExport(op.module) /\ Parseable(op.module) # {}) =>
         op.adapters
           = AdaptersOf(SuffixVersion(
               op.module.exports[Earliest(Parseable(op.module))]).value)
    /\ (~HasSchemaExport(op.module) /\ Parseable(op.module) = {}) =>
         /\ op.adapters = <<>>
         /\ result = Threw(CouldNotDetermineVersion)

-----------------------------------------------------------------------------
(* The schema version of a generation-3 plugin.                            *)

\* C31: a module handed to the adapter of generation 3 gives a facade
\* when its get_plugin_schema_version returns 2 or 3, a fresh one of that
\* schema version that made no call into the guest; for every other
\* value the adapter throws the error of a plugin that is not compatible
\* and the one guest call made is get_plugin_schema_version.
C31_SchemaVersionChecked ==
  (Instantiated /\ op.adapters = <<3>>) =>
    /\ op.calls = <<"get_plugin_schema_version">>
    /\ op.module.schemaVersion \in {2, 3} =>
         /\ result.kind = "returned"
         /\ result.value.version = 3
         /\ result.value.pluginSchemaVersion = op.module.schemaVersion
         /\ result.value.calls = <<>>
         /\ ~result.value.configSet
         /\ ~Registered(3, result.value.guest)
    /\ op.module.schemaVersion \notin {2, 3} =>
         result = Threw(NotCompatiblePlugin(op.module.schemaVersion))

\* a module that exports get_plugin_schema_version, which returns 4, was
\* refused by the adapter of generation 3
C31_Witness ==
  /\ Instantiated
  /\ op.module.exports = <<GetPluginSchemaVersionName>>
  /\ op.module.schemaVersion = 4
  /\ op.adapters = <<3>>
  /\ result = Threw(NotCompatiblePlugin(4))

-----------------------------------------------------------------------------
(* The request the bridge of generation 4 hands to the host formatter.     *)

\* the range the guest passes to host_format for a callback: the range
\* of the callback, or all the bytes of its file text
PassedRange(callback) ==
  IF callback.range = NoRange THEN FullRange(callback.fileText)
  ELSE callback.range

\* C32: the request host_format of generation 4 hands to the host
\* formatter has the file path and the file text of the guest's callback,
\* its override configuration (the empty object when the guest passed no
\* payload), and no bytesRange exactly when the guest passed the start 0
\* and the end that is the number of bytes of the file text; otherwise
\* its bytesRange is the pair the guest passed.
C32_CallbackRequest ==
  (HostCallback /\ facade.version = 4) =>
    LET callback == CallbackOf(op.run)
        request == facade.callbacks[1].request
    IN /\ request.filePath = callback.filePath
       /\ request.fileText = callback.fileText
       /\ request.overrideConfig =
            IF callback.overrideConfig = NoOverride THEN <<>>
            ELSE callback.overrideConfig
       /\ request.bytesRange =
            IF PassedRange(callback) = FullRange(callback.fileText)
              THEN NoRange
            ELSE PassedRange(callback)

\* the guest passed the override configuration {"k":1} and the range of
\* the second byte of "é": the host formatter got both
C32_Witness ==
  /\ HostCallback
  /\ facade.version = 4
  /\ CallbackOf(op.run).range = <<1, 2>>
  /\ facade.callbacks[1].request.bytesRange = <<1, 2>>
  /\ facade.callbacks[1].request.overrideConfig = << <<ConfigKey, 1>> >>
  /\ facade.callbacks[1].request.fileText = <<233>>

-----------------------------------------------------------------------------
(* The extension the context derives from a path.                          *)

\* the paths of the requests: .a  a.a  a.  a  .  ..a  a.b.a  a/.a  a\.a
\* a.a/a  and A.A
DotPaths ==
  {<<46, 97>>, <<97, 46, 97>>, <<97, 46>>, <<97>>, <<46>>, <<46, 46, 97>>,
   <<97, 46, 98, 46, 97>>, <<97, 47, 46, 97>>, <<97, 92, 46, 97>>,
   <<97, 46, 97, 47, 97>>, <<65, 46, 65>>}

\* the file matching infos of the plugins: the extension "a", the empty
\* extension, the file names "a" and ".a"
DotMatching ==
  {[fileExtensions |-> << <<97>> >>, fileNames |-> <<>>],
   [fileExtensions |-> << <<>> >>, fileNames |-> <<>>],
   [fileExtensions |-> <<>>, fileNames |-> << <<97>>, <<46, 97>> >>]}

DotFacades ==
  {NewFacade(4, 4, {"format_range"}, 0, [n |-> 1, fileNames |-> Absent], m) :
     m \in DotMatching}

DotAddPlugin ==
  /\ Len(plugins) < MaxPlugins
  /\ \E formatter \in DotFacades :
       RouterCalled([name |-> "addPlugin", code |-> 0 - 1, before |-> plugins],
                    addPlugin(plugins, RouterGlobalConfig, formatter, <<>>))

DotFormatText ==
  \E filePath \in DotPaths, run \in RouterRuns :
    LET request == [filePath |-> filePath, fileText |-> <<233>>,
                    bytesRange |-> NoRange, overrideConfig |-> NoOverride]
    IN RouterCalled([name |-> "context.formatText", code |-> 0 - 1,
                     before |-> plugins, request |-> request, run |-> run],
                    contextFormatText(plugins, request, run))

DotNext ==
  \/ DotAddPlugin
  \/ DotFormatText
  \/ RouterReturn

DotSpec == RouterInit /\ [][DotNext]_vars

\* the positions of the dots of a file name
Dots(fileName) == {i \in 1..Len(fileName) : fileName[i] = 46}

\* the part of a file name after the dot at position `dot`
AfterDot(fileName, dot) == SubSeq(fileName, dot + 1, Len(fileName))

\* the last of a non-empty set of positions
Last(S) == CHOOSE i \in S : \A j \in S : j <= i

\* the plugins of `ps` whose extension set contains `ext`
Declaring(ps, ext) == {i \in 1..Len(ps) : Has(ps[i].fileExtensions, ext)}

\* the plugin formatText of the context formats with when no plugin
\* matches by file name and the plugins of `byExtension` match by
\* extension
RoutedByExtension(byExtension) ==
  MatchesByName(op.before, op.request.filePath) = {} =>
    PluginsCalled = IF byExtension = {} THEN {} ELSE {Earliest(byExtension)}

\* C33: the extension the context routes a path by is the part of the
\* lower-cased file name after its last dot, for every file name that
\* contains a dot, a dot that begins the name included; a file name
\* without a dot has no extension and is matched by file name only.
C33_ExtensionAfterLastDot ==
  op.name = "context.formatText" =>
    LET fileName == getFileName(op.request.filePath)
    IN RoutedByExtension(
         IF Dots(fileName) = {} THEN {}
         ELSE Declaring(op.before, AfterDot(fileName, Last(Dots(fileName)))))

\* C33, amended: the extension the context routes a path by is the part
\* of the lower-cased file name after its last dot, for every file name
\* whose last dot is not its first character and not its last one; a
\* file name without such a dot has no extension and is matched by file
\* name only.
C33_ExtensionAfterInnerDot ==
  op.name = "context.formatText" =>
    LET fileName == getFileName(op.request.filePath)
        inner == Dots(fileName) # {}
                   /\ Last(Dots(fileName)) \notin {1, Len(fileName)}
    IN RoutedByExtension(
         IF inner
           THEN Declaring(op.before, AfterDot(fileName, Last(Dots(fileName))))
         ELSE {})

\* the only plugin declared the extension "a": the path "a/.a" found no
\* plugin
C33_Witness ==
  /\ op.name = "context.formatText"
  /\ op.request.filePath = <<97, 47, 46, 97>>
  /\ Len(op.before) = 1
  /\ op.before[1].fileExtensions = << <<97>> >>
  /\ PluginsCalled = {}
  /\ result.kind = "threw"

-----------------------------------------------------------------------------
(* The plugins other than the calling one that match a callback's path.    *)

\* the plugins of `ps` other than `plugin` that match the path by file
\* name or by extension
OthersMatching(ps, plugin, filePath) ==
  (MatchesByName(ps, filePath) \cup MatchesByExtension(ps, filePath))
    \ {plugin}

\* C34: when the guest of a registered plugin P calls back while the
\* context formats with P, and at least one registered plugin other than P
\* matches the callback's file path by file name or by extension, one of
\* those other plugins formats the callback's text, and its result is the
\* answer to the callback.
C34_CallbackFormattedByOther ==
  BridgeCall =>
    LET P == RoutedTo(op.before, op.request.filePath)
        others == OthersMatching(op.before, P, op.run.callback.filePath)
    IN others # {} =>
         /\ \E Q \in others :
              /\ FormatsReceived(plugins[Q].formatter) = 1
              /\ plugins[Q].formatter.guest.used.fileBytes
                   = encode(op.run.callback.fileText)
         /\ Len(plugins[P].formatter.callbacks) = 1
         /\ plugins[P].formatter.callbacks[1].code = 1
         /\ plugins[P].formatter.host.formattedText = op.run.nested.text

-----------------------------------------------------------------------------
(* The request the bridge of generation 3 hands to the host formatter.     *)

\* C35: the request host_format of generation 3 hands to the host
\* formatter has the file path, the file text and the override
\* configuration the guest handed over for that callback, each put
\* together from its chunks; a callback the guest handed no override
\* configuration for has the empty one, not the one of an earlier
\* callback.
C35_CallbackRequestOwn ==
  (HostCallback /\ facade.version = 3) =>
    LET callback == CallbackOf(op.run)
        request == facade.callbacks[1].request
    IN /\ request.filePath = callback.filePath
       /\ request.fileText = callback.fileText
       /\ request.overrideConfig =
            IF callback.overrideConfig = NoOverride THEN <<>>
            ELSE callback.overrideConfig

-----------------------------------------------------------------------------
(* The host formatter of one formatText call and the calls after it.  The *)
(* generation-3 facade of src/mod.ts takes the request as positional      *)
(* arguments and installs the host formatter only when one is passed.     *)

\* formatText(filePath, fileText, overrideConfig, formatWithHost) of
\* src/mod.ts: if (formatWithHost) host.setHostFormatter(formatWithHost);
\* the steps after it are those of the formatText of the facade for a
\* request without bytesRange.  The host formatter createHost starts with
\* returns the file text, as an undefined one does in the bridge.
formatText_mod(f, filePath, fileText, overrideConfig, formatWithHost, run) ==
  formatText(f, [filePath |-> filePath, fileText |-> fileText,
                 bytesRange |-> NoRange,
                 overrideConfig |-> overrideConfig],
             IF formatWithHost.kind # "undefined" THEN formatWithHost
             ELSE f.hostFormatter,
             run)

\* formatText of the generation-3 facade of src/mod.ts
ModFormatText ==
  /\ facade.version = 3
  /\ \E call \in {c \in HostCalls : c.request.bytesRange = NoRange} :
       LET out == formatText_mod(Begin(facade), call.request.filePath,
                                 call.request.fileText,
                                 call.request.overrideConfig,
                                 call.formatWithHost, call.run)
       IN Called([name |-> "formatText",
                  code |-> IF ReachedFormat(out.f.calls) /\ ~out.f.trapped
                             THEN call.run.code ELSE 0 - 1,
                  request |-> call.request,
                  formatWithHost |-> call.formatWithHost, run |-> call.run,
                  before |-> facade],
                 out)

\* formatText of the generation-4 facade
DirectFormatText == facade.version = 4 /\ HostFormatText

ModNext ==
  \/ ModFormatText
  \/ DirectFormatText
  \/ Return

ModSpec == HostInit /\ [][ModNext]_vars

\* C36: a formatText call on a standalone facade that passes no host
\* formatter has the callback of its guest answered as without a host
\* formatter (host_format returns 0 and the text the host keeps is the
\* callback's text), also when an earlier formatText call on the facade
\* passed one; no host formatter stays installed after the call.
C36_FormatterOfOneCall ==
  (HostCallback /\ op.formatWithHost.kind = "undefined") =>
    /\ facade.callbacks[1].code = 0
    /\ facade.callbacks[1].outcome = Returned(CallbackOf(op.run).fileText)
    /\ facade.host.formattedText = CallbackOf(op.run).fileText
    /\ facade.hostFormatter.kind = "undefined"

-----------------------------------------------------------------------------
(* The plugins of a context after an addPlugin that failed.                *)

\* C37: an addPlugin that throws, at whatever step, leaves the plugins of
\* the context as the call found them: no plugin is registered by it.
C37_FailedAddPluginRegistersNothing ==
  (op.name = "addPlugin" /\ result.kind = "threw") => plugins = op.before

-----------------------------------------------------------------------------
(* The plugins of a context over its operations.                           *)

\* the file names and extensions addPlugin registers for a file matching
\* info: each lower-cased, in order of first occurrence
Snapshot(matchingInfo) ==
  [fileExtensions |->
     NewSet([i \in 1..Len(matchingInfo.fileExtensions) |->
               ToLowerCase(matchingInfo.fileExtensions[i])]),
   fileNames |->
     NewSet([i \in 1..Len(matchingInfo.fileNames) |->
               ToLowerCase(matchingInfo.fileNames[i])])]

\* the sets of the plugins of `ps` stay what they are in `before`, in the
\* same order, and are the snapshot of the file matching info of each
\* plugin's guest
PluginsKept(before, ps) ==
  /\ Len(before) <= Len(ps)
  /\ \A i \in 1..Len(before) :
       /\ ps[i].fileNames = before[i].fileNames
       /\ ps[i].fileExtensions = before[i].fileExtensions
       /\ ps[i].formatter.matching = before[i].formatter.matching
  /\ \A i \in 1..Len(ps) :
       /\ ps[i].fileNames = Snapshot(ps[i].formatter.matching).fileNames
       /\ ps[i].fileExtensions
            = Snapshot(ps[i].formatter.matching).fileExtensions

\* C38: each operation of the context leaves the plugins it found, in
\* their order and with their file-name and extension sets, which are
\* those of the file matching info of each plugin's configuration; only an
\* addPlugin that returns adds a plugin, after the ones registered before.
C38_PluginsAreSuccessfulAdds ==
  ~Idle =>
    /\ PluginsKept(op.before, plugins)
    /\ Len(plugins) = Len(op.before)
         + (IF op.name = "addPlugin" /\ result.kind = "returned" THEN 1
            ELSE 0)

-----------------------------------------------------------------------------
(* The fd_write import of generation 4: the guest's writes to its         *)
(* standard streams.                                                       *)

\* largest number of iovec entries of an fd_write call
MaxIovs == 2

\* the guest's memory the iovec entries point into: "hi\n"
WriteMemory == <<104, 105, 10>>

\* the iovec entries of a call, as <<iovecBufPtr, iovecBufLen>>: each
\* names bytes of the guest's memory
Iovecs ==
  {v \in (0..(Len(WriteMemory) - 1)) \X (0..Len(WriteMemory)) :
     v[1] + v[2] <= Len(WriteMemory)}

\* the descriptors of a call: stdin, stdout, stderr, and a file
Descriptors == {0, 1, 2, 3}

\* the host a plugin runs in: the global that has the error stream
\* (Deno, process or none), and whether writeSync of the stream throws
Environments ==
  [global : {"Deno", "process", "none"}, fails : BOOLEAN]

\* new Uint8Array(wasmMemoryBuffer, iovecBufPtr, iovecBufLen)
BufferAt(memory, iovec) == SubSeq(memory, iovec[1] + 1, iovec[1] + iovec[2])

\* writeStderr(buf): stderr.writeSync(buf) of the global the host has;
\* an error it throws is caught and ignored, so the call ends the same
\* way when env.fails.  `stderr` is the list of the buffers writeSync was
\* called with
writeStderr(env, stderr, buf) ==
  IF env.global = "none" THEN stderr ELSE Append(stderr, buf)

RECURSIVE fdWriteLoop(_, _, _, _, _, _, _)
\* the loop of fd_write from entry i on: the return code, the buffers
\* written to the error stream and the value of the cell at nwrittenPtr
\* (a Uint32; the sums of the lengths are below 2^32 here)
fdWriteLoop(env, fd, iovs, i, totalWritten, stderr, nwritten) ==
  IF i < Len(iovs)
    THEN IF fd = 1 \/ fd = 2
           THEN fdWriteLoop(env, fd, iovs, i + 1,
                            totalWritten + iovs[i + 1][2],
                            writeStderr(env, stderr,
                                        BufferAt(WriteMemory, iovs[i + 1])),
                            nwritten)
         ELSE [ret |-> 1, stderr |-> stderr, nwritten |-> nwritten]
  ELSE [ret |-> 0, stderr |-> stderr, nwritten |-> totalWritten]

\* fd_write(fd, iovsPtr, iovsLen, nwrittenPtr): iovs are the iovsLen
\* entries at iovsPtr, nwritten the value of the cell at nwrittenPtr
fd_write(env, fd, iovs, nwritten) ==
  fdWriteLoop(env, fd, iovs, 0, 0, <<>>, nwritten)

WriteInit ==
  /\ facade = NewFacade(4, 4, {}, 0, [n |-> 1, fileNames |-> Absent],
                        FacadeMatching)
  /\ plugins = <<>>
  /\ op = NoOp
  /\ result = Returned(<<>>)
  /\ hist = NewHist

\* the guest calls fd_write; the cell at nwrittenPtr holds no count yet
FdWrite ==
  /\ Idle
  /\ \E env \in Environments, fd \in Descriptors,
        iovs \in SeqsUpTo(Iovecs, MaxIovs) :
       LET out == fd_write(env, fd, iovs, Unset)
       IN /\ op' = [name |-> "fd_write", code |-> 0 - 1, env |-> env,
                    fd |-> fd, iovs |-> iovs, stderr |-> out.stderr,
                    nwritten |-> out.nwritten]
          /\ result' = Returned(out.ret)
  /\ UNCHANGED <<facade, plugins, hist>>

WriteNext ==
  \/ FdWrite
  \/ Return

WriteSpec == WriteInit /\ [][WriteNext]_vars

RECURSIVE TotalLength(_)
\* the sum of the lengths of iovec entries
TotalLength(iovs) ==
  IF iovs = <<>> THEN 0
  ELSE iovs[Len(iovs)][2] + TotalLength(SubSeq(iovs, 1, Len(iovs) - 1))

\* C39: fd_write returns to the guest whether or not writeSync throws;
\* for the descriptor 1 or 2 it hands each buffer of the iovec entries
\* once, in their order, to the error stream of the host, stores the sum
\* of their lengths at nwrittenPtr and returns 0; for every other
\* descriptor it returns a code other than 0 and writes nothing.
C39_FdWriteForwards ==
  op.name = "fd_write" =>
    /\ result.kind = "returned"
    /\ op.fd \in {1, 2} =>
         /\ result.value = 0
         /\ op.nwritten = TotalLength(op.iovs)
         /\ op.env.global # "none" =>
              op.stderr = [i \in 1..Len(op.iovs) |->
                             BufferAt(WriteMemory, op.iovs[i])]
    /\ op.fd \notin {1, 2} =>
         /\ result.value # 0
         /\ op.stderr = <<>>

=============================================================================
